---- MODULE Spec2Model ----
(***************************************************************************)
(* A model of the go-vnc client connection (vncclient.go): Connect and its *)
(* handshake steps, Close, the ListenAndHandle reader loop with its        *)
(* consumer channel, the unserialized send path, the byte counters and the *)
(* rectangle decoders (Raw, Hextile, Tight).                               *)
(***************************************************************************)
EXTENDS Integers, Sequences, FiniteSets, TLC

\* ------------------------------------------------------------------ bounds
\* Server messages the reader loop may read in one behaviour.
MaxMsgs == 3
\* Close calls the client tasks may start in one behaviour.
MaxCloseCalls == 3
\* Client-to-server messages the sender tasks may start in one behaviour.
MaxSends == 2
\* Largest capacity of the consumer channel (0 = unbuffered).
MaxChanCap == 1

\* Bytes of one client-to-server message handed to send.
SendLen == 2

\* Calls of receive, receiveN, send or a decoder in one behaviour of the
\* byte-counter specification.
MaxOps == 3
\* Largest element count n handed to receiveN.
MaxN == 2
\* Largest length of the destination slice before receiveN appends to it.
MaxPre == 1

\* Tight rectangles decoded in one behaviour.
MaxTightRects == 3

\* Compact lengths 0..MaxCompactSmall are decoded besides the boundary values.
MaxCompactSmall == 20

\* Monochrome rectangles are 1..MaxPalW, 8 or 9 wide and 1..MaxPalH high.
MaxPalW == 2
MaxPalH == 2

\* The widest Hextile rectangle spans MaxHexTiles tiles.
MaxHexTiles == 3

\* Raw rectangles are 0..MaxRawW wide and 0..MaxRawH high.
MaxRawW == 2
MaxRawH == 2

\* DesktopSize rectangles decoded on one connection.
MaxDesktopReads == 2

\* Bytes the server sends in the buffered-reader specification.
MaxWire == 6

\* Tight rectangles of the size specification are 0..MaxSizeW wide and
\* 0..MaxSizeH high.
MaxSizeW == 2
MaxSizeH == 2

\* Gradient rectangles are 0..MaxGradW wide and 0..MaxGradH high, or large;
\* the corrections of the first MaxCorrPixels pixels are chosen.
MaxGradW == 2
MaxGradH == 2
MaxCorrPixels == 4

\* Tile masks one Hextile rectangle's loops may read.
MaxLoopTiles == 8

\* ------------------------------------------------------- program constants

\* Message types the server may put on the wire: the four RFC types and one
\* type no decoder is registered for.
FramebufferUpdateMsg == 0
SetColorMapEntriesMsg == 1
BellMsg == 2
ServerCutTextMsg == 3
UnknownMsg == ServerCutTextMsg + 1
WireTypes == {FramebufferUpdateMsg, BellMsg, UnknownMsg}

\* ClientConfig.ServerMessages: a nil slice, or a list of decoders (given by
\* the set of their types). NewClientConfig installs the four RFC decoders.
NewClientConfigMessages ==
    {FramebufferUpdateMsg, SetColorMapEntriesMsg, BellMsg, ServerCutTextMsg}
ServerMessagesChoices ==
    { [nil |-> TRUE, types |-> {}],
      [nil |-> FALSE, types |-> NewClientConfigMessages],
      [nil |-> FALSE, types |-> {BellMsg}] }

\* ClientConfig.ServerMessageCh: a nil channel, or a channel of capacity cap.
ChanChoices ==
    { [nil |-> TRUE, cap |-> 0] } \cup
    { [nil |-> FALSE, cap |-> k] : k \in 0..MaxChanCap }

\* ctx.Value("vnc_max_proto_version"): unset (a nil interface) or a string.
Unset == "<unset>"
MpvChoices == {Unset, "", "3.3", "3.8", "3.7"}

\* The steps of Connect after processContext, in program order.
StepOrder == << "protocolVersionHandshake", "securityHandshake",
                "securityResultHandshake", "clientInit", "serverInit",
                "SetEncodings", "SetPixelFormat" >>
NumSteps == Len(StepOrder)

CloserTasks == {1, 2}
SenderTasks == {1, 2}

VARIABLES
    mpv,            \* the context's vnc_max_proto_version
    cfgMsgs,        \* config.ServerMessages
    cfgCh,          \* config.ServerMessageCh
    closers,        \* the tasks that call Close
    cstep,          \* Connect: 0 = not started, i = about to run step i
    connResult,     \* "none" | "conn" | "err" | "fatal" (process exited)
    stepsRun,       \* the handshake steps Connect has run, in order
    failedStep,     \* the step that failed (0 = none)
    connTerminated, \* ClientConn.connTerminated
    closeCount,     \* number of calls of c.Conn.Close()
    nRead,          \* bytes consumed from the transport
    nWritten,       \* bytes written to the transport
    lpc,            \* ListenAndHandle position
    lahResult,      \* "none" | "nil" | "cfgerr": what ListenAndHandle returned
    lahStop,        \* why the loop ended
    wireLog,        \* types of the messages read so far, in wire order
    cur,            \* index in wireLog of the message being handled (0 = none)
    parsedLog,      \* indices of the messages parsed successfully
    chanBuf,        \* the channel's buffer
    consumed,       \* what the consumer has received
    cl,             \* Close position of each closer task
    closeCalls,     \* number of Close calls started by the closer tasks
    closeReturns,   \* what each finished Close call of the tasks returned
    spc,            \* send position of each sender task
    sLeft,          \* bytes each sender still has to write
    sends,          \* number of send calls started by the sender tasks
    interleaved,    \* a byte was written inside another caller's message
    bytesReceived,  \* metrics["bytes-received"]
    bytesSent,      \* metrics["bytes-sent"]
    mOps,           \* byte-counter specification: operations done
    zlibs,          \* ClientConn.zlibs: the four Tight zlib readers
    zPrev,          \* zlibs as the previous rectangle left them
    srvHist,        \* chunks the server put on each of its streams since the
                    \* stream's last reset
    tpc,            \* TightEncoding.Read position
    tctl,           \* the compression-control byte of the rectangle
    tRects,         \* Tight rectangles started
    tResult,        \* result of the last Tight rectangle
    kWire,          \* compact length: the bytes on the wire
    kPos,           \* compact length: bytes read
    kLen,           \* compact length: the variable length
    kI,             \* compact length: the loop index i
    kPc,            \* compact length: "loop" | "done" | "err"
    pW,             \* palette: rect.Width
    pH,             \* palette: rect.Height
    pP,             \* palette: paletteSize
    pData,          \* palette: the decompressed index stream
    pK,             \* palette: index of byteVal in data
    pI,             \* palette: the bit index i
    pOut,           \* palette: the palette indexes written to pixelData
    pPc,            \* palette: "idle" | "loop" | "done" | "err" | "panic"
    hW,             \* hextile: rect.Width
    hH,             \* hextile: rect.Height
    hX,             \* hextile: x - rect.X of the tile loop
    hY,             \* hextile: y - rect.Y of the tile loop
    hColors,        \* hextile: colors
    hBg,            \* hextile: backgroundColor
    hFg,            \* hextile: foregroundColor
    hMask,          \* hextile: subencodingMask of the tile
    hLeft,          \* hextile: sub-rectangles of the tile still to read
    hXY,            \* hextile: xy of the last sub-rectangle
    hWH,            \* hextile: wh of the last sub-rectangle
    hPc,            \* hextile: "idle" | "tile" | "sub" | "done" | "err"
    hSentBg,        \* the background the server last specified in the rectangle
    hSentFg,        \* the foreground the server last specified in the rectangle
    rW,             \* raw: rect.Width
    rH,             \* raw: rect.Height
    rB,             \* raw: bytesPerPixel
    rAvail,         \* raw: bytes the connection delivers before it fails
    rBuf,           \* raw: buf
    rColors,        \* raw: the Colors returned
    rPc,           \* raw: "idle" | "recv" | "done" | "err"
    fbWidth,        \* ClientConn.fbWidth
    fbHeight,       \* ClientConn.fbHeight
    pixelFormat,    \* ClientConn.pixelFormat
    colorMap,       \* ClientConn.colorMap
    encodings,      \* ClientConn.encodings
    desktopName,    \* ClientConn.desktopName
    dRect,          \* desktop size: the rectangle last decoded
    dReads,         \* desktop size: rectangles decoded
    dResult,       \* desktop size: "none" | "ok" | "err", what Read returned
    ctxDone,       \* the context passed to Connect has been cancelled
    bArrived,       \* bytes of the stream that have arrived at the transport
    bSock,          \* bytes of the stream taken from Conn, by bufr or directly
    bBuf,           \* stream positions of the bytes held in bufr
    bLog,          \* stream positions of the bytes the reader got, in order
    sW,             \* tight size: rect.Width
    sH,             \* tight size: rect.Height
    sBPP,           \* tight size: pixelFormat.BPP
    sFilter,        \* tight size: filterID
    sP,             \* tight size: paletteSize
    sLen,           \* tight size: length of what readCompressedData returns
    sBad,           \* tight size: the stream holds an index >= paletteSize
    sOut,           \* tight size: len(Data) of the result, -1 without a payload
    sRes,          \* tight size: "none" | "ok" | "err" | "panic"
    gW,             \* gradient: rect.Width
    gH,             \* gradient: rect.Height
    gB,             \* gradient: bytesPerPixel
    gCorr,          \* gradient: the non-zero bytes of correctionData, by position
    gCorrLen,       \* gradient: len(correctionData)
    gY,             \* gradient: the row loop y
    gData,          \* gradient: the non-zero bytes of pixelData, by offset
    gPc,           \* gradient: "idle" | "start" | "loop" | "done" | "err" | "panic"
    lRect,          \* hextile loops: rect (X, Y, Width, Height)
    lx,             \* hextile loops: x
    ly,             \* hextile loops: y
    lTiles,         \* hextile loops: the tiles whose mask was read
    lPc             \* hextile loops: position

vars == << mpv, cfgMsgs, cfgCh, closers, cstep, connResult, stepsRun,
           failedStep, connTerminated, closeCount, nRead, nWritten, lpc,
           lahResult, lahStop, wireLog, cur, parsedLog, chanBuf, consumed,
           cl, closeCalls, closeReturns, spc, sLeft, sends, interleaved,
           bytesReceived, bytesSent, mOps, zlibs, zPrev, srvHist, tpc, tctl,
           tRects, tResult, kWire, kPos, kLen, kI, kPc, pW, pH, pP, pData,
           pK, pI, pOut, pPc, hW, hH, hX, hY, hColors, hBg, hFg, hMask,
           hLeft, hXY, hWH, hPc, hSentBg, hSentFg, rW, rH, rB, rAvail, rBuf,
           rColors, rPc, fbWidth, fbHeight, pixelFormat, colorMap, encodings,
           desktopName, dRect, dReads, dResult, ctxDone, bArrived, bSock,
           bBuf, bLog, sW, sH, sBPP, sFilter, sP, sLen, sBad, sOut, sRes, gW,
           gH, gB, gCorr, gCorrLen, gY, gData, gPc, lRect, lx, ly, lTiles,
           lPc >>

cfgVars == << mpv, cfgMsgs, cfgCh, closers >>
connectVars == << cstep, connResult, stepsRun, failedStep >>
readerVars == << lpc, lahResult, lahStop, wireLog, cur, parsedLog >>
chanVars == << chanBuf, consumed >>
closerVars == << cl, closeCalls, closeReturns >>
senderVars == << spc, sLeft, sends, interleaved >>
counterVars == << bytesReceived, bytesSent >>
\* The state of the specifications of the single operations and decoders.
metricOpVars == << mOps >>
tightVars == << zlibs, zPrev, srvHist, tpc, tctl, tRects, tResult >>
compactVars == << kWire, kPos, kLen, kI, kPc >>
paletteVars == << pW, pH, pP, pData, pK, pI, pOut, pPc >>
hextileVars == << hW, hH, hX, hY, hColors, hBg, hFg, hMask, hLeft, hXY, hWH,
                 hPc, hSentBg, hSentFg >>
rawVars == << rW, rH, rB, rAvail, rBuf, rColors, rPc >>
desktopVars == << fbWidth, fbHeight, pixelFormat, colorMap, encodings,
                  desktopName, dRect, dReads, dResult >>
cancelVars == << ctxDone >>
bufrVars == << bArrived, bSock, bBuf, bLog >>
sizeVars == << sW, sH, sBPP, sFilter, sP, sLen, sBad, sOut, sRes >>
gradVars == << gW, gH, gB, gCorr, gCorrLen, gY, gData, gPc >>
loopVars == << lRect, lx, ly, lTiles, lPc >>
decoderVars ==
    << metricOpVars, tightVars, compactVars, paletteVars, hextileVars,
       rawVars, desktopVars, cancelVars, bufrVars, sizeVars, gradVars,
       loopVars >>
\* For each of those specifications, the state of the others.
notMetrics ==
    << tightVars, compactVars, paletteVars, hextileVars, rawVars,
       desktopVars, cancelVars, bufrVars, sizeVars, gradVars, loopVars >>
notTight ==
    << metricOpVars, compactVars, paletteVars, hextileVars, rawVars,
       desktopVars, cancelVars, bufrVars, sizeVars, gradVars, loopVars >>
notCompact ==
    << metricOpVars, tightVars, paletteVars, hextileVars, rawVars,
       desktopVars, cancelVars, bufrVars, sizeVars, gradVars, loopVars >>
notPalette ==
    << metricOpVars, tightVars, compactVars, hextileVars, rawVars,
       desktopVars, cancelVars, bufrVars, sizeVars, gradVars, loopVars >>
notHextile ==
    << metricOpVars, tightVars, compactVars, paletteVars, rawVars,
       desktopVars, cancelVars, bufrVars, sizeVars, gradVars, loopVars >>
notRaw ==
    << metricOpVars, tightVars, compactVars, paletteVars, hextileVars,
       desktopVars, cancelVars, bufrVars, sizeVars, gradVars, loopVars >>
notDesktop ==
    << metricOpVars, tightVars, compactVars, paletteVars, hextileVars,
       rawVars, cancelVars, bufrVars, sizeVars, gradVars, loopVars >>
notCancel ==
    << metricOpVars, tightVars, compactVars, paletteVars, hextileVars,
       rawVars, desktopVars, bufrVars, sizeVars, gradVars, loopVars >>
notBufr ==
    << metricOpVars, tightVars, compactVars, paletteVars, hextileVars,
       rawVars, desktopVars, cancelVars, sizeVars, gradVars, loopVars >>
notTightSize ==
    << metricOpVars, tightVars, compactVars, paletteVars, hextileVars,
       rawVars, desktopVars, cancelVars, bufrVars, gradVars, loopVars >>
notGradient ==
    << metricOpVars, tightVars, compactVars, paletteVars, hextileVars,
       rawVars, desktopVars, cancelVars, bufrVars, sizeVars, loopVars >>
notLoop ==
    << metricOpVars, tightVars, compactVars, paletteVars, hextileVars,
       rawVars, desktopVars, cancelVars, bufrVars, sizeVars, gradVars >>

\* ------------------------------------------------------------ construction
\* NewClientConn: nothing terminated, nothing read or written.
InitConn ==
    /\ cstep = 0 /\ connResult = "none" /\ stepsRun = << >> /\ failedStep = 0
    /\ connTerminated = FALSE /\ closeCount = 0
    /\ nRead = 0 /\ nWritten = 0
    /\ lpc = "idle" /\ lahResult = "none" /\ lahStop = "none"
    /\ wireLog = << >> /\ cur = 0 /\ parsedLog = << >>
    /\ chanBuf = << >> /\ consumed = << >>
    /\ cl = [t \in CloserTasks |-> "idle"] /\ closeCalls = 0
    /\ closeReturns = << >>
    /\ spc = [s \in SenderTasks |-> "idle"]
    /\ sLeft = [s \in SenderTasks |-> 0] /\ sends = 0
    /\ interleaved = FALSE
    /\ bytesReceived = 0 /\ bytesSent = 0

\* No single-operation specification is running.
Streams == 0..3
AbsentStream == [present |-> FALSE, hist |-> << >>]
InitTight ==
    /\ zlibs = [i \in Streams |-> AbsentStream]
    /\ zPrev = [i \in Streams |-> AbsentStream]
    /\ srvHist = [i \in Streams |-> << >>]
    /\ tpc = "idle" /\ tctl = 0 /\ tRects = 0 /\ tResult = "none"

InitCompactIdle ==
    kWire = << >> /\ kPos = 0 /\ kLen = 0 /\ kI = 0 /\ kPc = "done"

InitPaletteIdle ==
    /\ pW = 1 /\ pH = 1 /\ pP = 2 /\ pData = << >>
    /\ pK = 0 /\ pI = 7 /\ pOut = << >> /\ pPc = "idle"

\* The zero Color.
ZeroColor == 0

\* Read's locals before the first tile of a w x h rectangle.
InitHextileRect(w, h, pc) ==
    /\ hW = w /\ hH = h /\ hX = 0 /\ hY = 0
    /\ hColors = [i \in 0..(w * h - 1) |-> ZeroColor]
    /\ hBg = ZeroColor /\ hFg = ZeroColor
    /\ hMask = 0 /\ hLeft = 0 /\ hXY = 0 /\ hWH = 0
    /\ hPc = pc
    /\ hSentBg = ZeroColor /\ hSentFg = ZeroColor

InitHextileIdle == InitHextileRect(1, 1, "idle")

InitRawIdle ==
    /\ rW = 0 /\ rH = 0 /\ rB = 1 /\ rAvail = 0
    /\ rBuf = << >> /\ rColors = << >> /\ rPc = "idle"

\* NewClientConn: no framebuffer size or name yet, Raw, 32 bits per pixel.
InitDesktopIdle ==
    /\ fbWidth = 0 /\ fbHeight = 0
    /\ pixelFormat = "PixelFormat32bit" /\ colorMap = "none"
    /\ encodings = << "Raw" >> /\ desktopName = ""
    /\ dRect = [w |-> 0, h |-> 0] /\ dReads = 0 /\ dResult = "none"

\* The caller has not cancelled the context.
InitCancelIdle ==
    ctxDone = FALSE

\* bufio.NewReaderSize(c, 1024): nothing arrived, nothing buffered.
InitBufrIdle ==
    bArrived = 0 /\ bSock = 0 /\ bBuf = << >> /\ bLog = << >>

\* No Tight filter is being decoded.
InitSizeIdle ==
    /\ sW = 0 /\ sH = 0 /\ sBPP = 32 /\ sFilter = 0 /\ sP = 1 /\ sLen = 0
    /\ sBad = FALSE /\ sOut = 0 - 1 /\ sRes = "idle"

\* A byte slice that is all zero: slices are kept as the function from the
\* positions of their non-zero bytes to those bytes.
NoBytes == [j \in {} |-> 0]

\* No Gradient rectangle is being decoded.
InitGradIdle ==
    /\ gW = 0 /\ gH = 0 /\ gB = 4 /\ gCorr = NoBytes /\ gCorrLen = 0
    /\ gY = 0 /\ gData = NoBytes /\ gPc = "idle"

\* No Hextile rectangle is being tiled.
InitLoopIdle ==
    /\ lRect = [X |-> 0, Y |-> 0, Width |-> 0, Height |-> 0]
    /\ lx = 0 /\ ly = 0 /\ lTiles = << >> /\ lPc = "idle"

InitDecoders ==
    /\ mOps = 0
    /\ InitTight
    /\ InitCompactIdle
    /\ InitPaletteIdle
    /\ InitHextileIdle
    /\ InitRawIdle
    /\ InitDesktopIdle
    /\ InitCancelIdle
    /\ InitBufrIdle
    /\ InitSizeIdle
    /\ InitGradIdle
    /\ InitLoopIdle

\* Every single-operation specification idle but one.
IdleButMetrics ==
    /\ InitTight
    /\ InitCompactIdle
    /\ InitPaletteIdle
    /\ InitHextileIdle
    /\ InitRawIdle
    /\ InitDesktopIdle
    /\ InitCancelIdle
    /\ InitBufrIdle
    /\ InitSizeIdle
    /\ InitGradIdle
    /\ InitLoopIdle
IdleButTight ==
    /\ mOps = 0
    /\ InitCompactIdle
    /\ InitPaletteIdle
    /\ InitHextileIdle
    /\ InitRawIdle
    /\ InitDesktopIdle
    /\ InitCancelIdle
    /\ InitBufrIdle
    /\ InitSizeIdle
    /\ InitGradIdle
    /\ InitLoopIdle
IdleButCompact ==
    /\ mOps = 0
    /\ InitTight
    /\ InitPaletteIdle
    /\ InitHextileIdle
    /\ InitRawIdle
    /\ InitDesktopIdle
    /\ InitCancelIdle
    /\ InitBufrIdle
    /\ InitSizeIdle
    /\ InitGradIdle
    /\ InitLoopIdle
IdleButPalette ==
    /\ mOps = 0
    /\ InitTight
    /\ InitCompactIdle
    /\ InitHextileIdle
    /\ InitRawIdle
    /\ InitDesktopIdle
    /\ InitCancelIdle
    /\ InitBufrIdle
    /\ InitSizeIdle
    /\ InitGradIdle
    /\ InitLoopIdle
IdleButHextile ==
    /\ mOps = 0
    /\ InitTight
    /\ InitCompactIdle
    /\ InitPaletteIdle
    /\ InitRawIdle
    /\ InitDesktopIdle
    /\ InitCancelIdle
    /\ InitBufrIdle
    /\ InitSizeIdle
    /\ InitGradIdle
    /\ InitLoopIdle
IdleButRaw ==
    /\ mOps = 0
    /\ InitTight
    /\ InitCompactIdle
    /\ InitPaletteIdle
    /\ InitHextileIdle
    /\ InitDesktopIdle
    /\ InitCancelIdle
    /\ InitBufrIdle
    /\ InitSizeIdle
    /\ InitGradIdle
    /\ InitLoopIdle
IdleButDesktop ==
    /\ mOps = 0
    /\ InitTight
    /\ InitCompactIdle
    /\ InitPaletteIdle
    /\ InitHextileIdle
    /\ InitRawIdle
    /\ InitCancelIdle
    /\ InitBufrIdle
    /\ InitSizeIdle
    /\ InitGradIdle
    /\ InitLoopIdle
IdleButCancel ==
    /\ mOps = 0
    /\ InitTight
    /\ InitCompactIdle
    /\ InitPaletteIdle
    /\ InitHextileIdle
    /\ InitRawIdle
    /\ InitDesktopIdle
    /\ InitBufrIdle
    /\ InitSizeIdle
    /\ InitGradIdle
    /\ InitLoopIdle
IdleButBufr ==
    /\ mOps = 0
    /\ InitTight
    /\ InitCompactIdle
    /\ InitPaletteIdle
    /\ InitHextileIdle
    /\ InitRawIdle
    /\ InitDesktopIdle
    /\ InitCancelIdle
    /\ InitSizeIdle
    /\ InitGradIdle
    /\ InitLoopIdle
IdleButTightSize ==
    /\ mOps = 0
    /\ InitTight
    /\ InitCompactIdle
    /\ InitPaletteIdle
    /\ InitHextileIdle
    /\ InitRawIdle
    /\ InitDesktopIdle
    /\ InitCancelIdle
    /\ InitBufrIdle
    /\ InitGradIdle
    /\ InitLoopIdle
IdleButGradient ==
    /\ mOps = 0
    /\ InitTight
    /\ InitCompactIdle
    /\ InitPaletteIdle
    /\ InitHextileIdle
    /\ InitRawIdle
    /\ InitDesktopIdle
    /\ InitCancelIdle
    /\ InitBufrIdle
    /\ InitSizeIdle
    /\ InitLoopIdle
IdleButLoop ==
    /\ mOps = 0
    /\ InitTight
    /\ InitCompactIdle
    /\ InitPaletteIdle
    /\ InitHextileIdle
    /\ InitRawIdle
    /\ InitDesktopIdle
    /\ InitCancelIdle
    /\ InitBufrIdle
    /\ InitSizeIdle
    /\ InitGradIdle

InitConfig ==
    /\ mpv \in MpvChoices
    /\ cfgMsgs \in ServerMessagesChoices
    /\ cfgCh \in ChanChoices

Init == InitConfig /\ closers = CloserTasks /\ InitConn /\ InitDecoders

\* ------------------------------------------------------------------- Close
\* A Close whose guard never fires.
CloseGuardNever(term) == FALSE

\* Close's guard: a set flag makes the call return nil at once.
CloseGuard(term) == term

\* A whole Close call run with no other task in between: the flag and the
\* number of c.Conn.Close() calls after it.
CloseCall(term, cnt) ==
    IF CloseGuard(term) THEN [term |-> term, cnt |-> cnt]
    ELSE [term |-> TRUE, cnt |-> cnt + 1]

\* A closer task enters Close and reads the flag.
CloseEnter(t) ==
    /\ t \in closers /\ connResult = "conn"
    /\ cl[t] = "idle" /\ closeCalls < MaxCloseCalls
    /\ closeCalls' = closeCalls + 1
    /\ IF CloseGuard(connTerminated)
       THEN /\ closeReturns' = Append(closeReturns, "nil")
            /\ cl' = cl
       ELSE /\ cl' = [cl EXCEPT ![t] = "set"]
            /\ closeReturns' = closeReturns
    /\ UNCHANGED << cfgVars, decoderVars, counterVars,
                    connectVars, readerVars, chanVars, senderVars,
                    connTerminated, closeCount, nRead, nWritten >>

\* c.connTerminated = true
CloseSetFlag(t) ==
    /\ cl[t] = "set"
    /\ connTerminated' = TRUE
    /\ cl' = [cl EXCEPT ![t] = "close"]
    /\ UNCHANGED << cfgVars, decoderVars, counterVars,
                    connectVars, readerVars, chanVars, senderVars,
                    closeCalls, closeReturns, closeCount, nRead, nWritten >>

\* return c.Conn.Close()
CloseTransport(t) ==
    /\ cl[t] = "close"
    /\ closeCount' = closeCount + 1
    /\ closeReturns' = Append(closeReturns, "transport")
    /\ cl' = [cl EXCEPT ![t] = "idle"]
    /\ UNCHANGED << cfgVars, decoderVars, counterVars,
                    connectVars, readerVars, chanVars, senderVars,
                    closeCalls, connTerminated, nRead, nWritten >>

\* ----------------------------------------------------------------- Connect
\* processContext: the error case.
ProcessContextErr(v) ==
    /\ v # Unset /\ v # ""
    /\ v \notin {"3.3", "3.8"}

\* What Connect does with a processContext error: log.Fatalf ends the process.
ContextErrResult == "fatal"

\* Bytes each handshake step reads and writes when it succeeds.
StepReadBytes == << 12, 2, 4, 0, 24, 0, 0 >>
StepWriteBytes == << 12, 1, 0, 1, 0, 8, 20 >>

\* conn := NewClientConn(c, cfg); conn.processContext(ctx)
ConnectStart ==
    /\ cstep = 0 /\ connResult = "none"
    /\ IF ProcessContextErr(mpv)
       THEN /\ connResult' = ContextErrResult
            /\ cstep' = cstep
       ELSE /\ cstep' = 1
            /\ connResult' = connResult
    /\ UNCHANGED << cfgVars, decoderVars, counterVars,
                    stepsRun, failedStep, connTerminated, closeCount,
                    nRead, nWritten, readerVars, chanVars, closerVars,
                    senderVars >>

\* The step after step i succeeded: the next step, or return conn, nil.
AfterStepOk(i) ==
    IF i = NumSteps THEN [step |-> i + 1, result |-> "conn"]
    ELSE [step |-> i + 1, result |-> "none"]

\* Step cstep runs and succeeds.
ConnectStepOk ==
    /\ cstep \in 1..NumSteps /\ connResult = "none"
    /\ stepsRun' = Append(stepsRun, StepOrder[cstep])
    /\ nRead' = nRead + StepReadBytes[cstep]
    /\ nWritten' = nWritten + StepWriteBytes[cstep]
    /\ cstep' = AfterStepOk(cstep).step
    /\ connResult' = AfterStepOk(cstep).result
    /\ UNCHANGED << cfgVars, decoderVars, counterVars,
                    failedStep, connTerminated, closeCount,
                    readerVars, chanVars, closerVars, senderVars >>

\* A failing step that returns the error without closing the connection.
AfterStepErrNoClose(term, cnt) ==
    [close |-> [term |-> term, cnt |-> cnt], result |-> "err"]

\* The step failed: conn.Close(); return nil, err.
AfterStepErr(term, cnt) ==
    [close |-> CloseCall(term, cnt), result |-> "err"]

\* Step cstep runs and fails, before or after its bytes were exchanged.
ConnectStepFail ==
    /\ cstep \in 1..NumSteps /\ connResult = "none"
    /\ stepsRun' = Append(stepsRun, StepOrder[cstep])
    /\ failedStep' = cstep
    /\ \E io \in BOOLEAN :
          /\ nRead' = nRead + (IF io THEN StepReadBytes[cstep] ELSE 0)
          /\ nWritten' = nWritten + (IF io THEN StepWriteBytes[cstep] ELSE 0)
    /\ connTerminated' = AfterStepErr(connTerminated, closeCount).close.term
    /\ closeCount' = AfterStepErr(connTerminated, closeCount).close.cnt
    /\ connResult' = AfterStepErr(connTerminated, closeCount).result
    /\ cstep' = cstep
    /\ UNCHANGED << cfgVars, decoderVars, counterVars,
                    readerVars, chanVars, closerVars, senderVars >>

\* ----------------------------------------------------------- byte counters
\* metrics.Gauge.Adjust: the gauge moves by d.
GaugeAdjust(g, d) == g + d

\* send's counter update: size bytes are added when size > 0.
SendAdjust(g, size) == IF size > 0 THEN GaugeAdjust(g, size) ELSE g

\* --------------------------------------------------------- ListenAndHandle
\* The dispatch map: one entry per decoder of config.ServerMessages, keyed by
\* its type; nothing else is put into it.
DispatchMap(cfg) == cfg.types

\* Bytes of the body of a message of type t (its fixed header, no payload).
BodyLen(t) ==
    CASE t = FramebufferUpdateMsg -> 3
      [] t = SetColorMapEntriesMsg -> 5
      [] t = ServerCutTextMsg -> 7
      [] OTHER -> 0

\* A break written as a continue: the loop goes round again.
LoopBreakContinue(why) == [pc |-> "check", stop |-> why, result |-> "none"]

\* The loop ends: every break leads to "return nil".
LoopBreak(why) == [pc |-> "done", stop |-> why, result |-> "nil"]

\* Entry: the ServerMessages check and the dispatch map.
ListenStart ==
    /\ connResult = "conn" /\ lpc = "idle"
    /\ IF cfgMsgs.nil
       THEN /\ lpc' = "done"
            /\ lahStop' = "config"
            /\ lahResult' = "cfgerr"
       ELSE /\ lpc' = "check"
            /\ UNCHANGED << lahStop, lahResult >>
    /\ UNCHANGED << cfgVars, decoderVars, counterVars,
                    connectVars, wireLog, cur, parsedLog, chanVars,
                    closerVars, senderVars, connTerminated, closeCount,
                    nRead, nWritten >>

\* Top of the loop: if c.connTerminated { break }
LoopCheck ==
    /\ lpc = "check"
    /\ IF connTerminated
       THEN /\ lpc' = LoopBreak("terminated").pc
            /\ lahStop' = LoopBreak("terminated").stop
            /\ lahResult' = LoopBreak("terminated").result
       ELSE /\ lpc' = "recv"
            /\ UNCHANGED << lahStop, lahResult >>
    /\ UNCHANGED << cfgVars, decoderVars, counterVars,
                    connectVars, wireLog, cur, parsedLog, chanVars,
                    closerVars, senderVars, connTerminated, closeCount,
                    nRead, nWritten >>

\* Top of the loop while a Close call is writing or has written the flag: the
\* flag is a plain bool, so the unsynchronised read may still give false.
LoopCheckStale ==
    /\ lpc = "check"
    /\ connTerminated
    /\ lpc' = "recv"
    /\ UNCHANGED << cfgVars, decoderVars, counterVars,
                    connectVars, lahStop, lahResult, wireLog, cur, parsedLog,
                    chanVars, closerVars, senderVars, connTerminated,
                    closeCount, nRead, nWritten >>

\* c.receive(&messageType) succeeds with type t, then the map lookup. The
\* byte may come from bufr's buffer, so a closed transport does not prevent it.
ReceiveType(t) ==
    /\ lpc = "recv" /\ Len(wireLog) < MaxMsgs
    /\ wireLog' = Append(wireLog, t)
    /\ cur' = Len(wireLog) + 1
    /\ nRead' = nRead + 1
    /\ bytesReceived' = GaugeAdjust(bytesReceived, 1)
    /\ IF t \in DispatchMap(cfgMsgs)
       THEN /\ lpc' = "parse"
            /\ UNCHANGED << lahStop, lahResult >>
       ELSE /\ lpc' = LoopBreak("unknown_type").pc
            /\ lahStop' = LoopBreak("unknown_type").stop
            /\ lahResult' = LoopBreak("unknown_type").result
    /\ UNCHANGED << cfgVars, decoderVars, bytesSent,
                    connectVars, parsedLog, chanVars, closerVars,
                    senderVars, connTerminated, closeCount, nWritten >>

\* c.receive(&messageType) fails (EOF, I/O error, transport closed); the flag
\* read at that point only selects what is logged.
ReceiveFail ==
    /\ lpc = "recv"
    /\ LET why == IF connTerminated THEN "read_fail_terminated"
                  ELSE "read_fail"
       IN /\ lpc' = LoopBreak(why).pc
          /\ lahStop' = LoopBreak(why).stop
          /\ lahResult' = LoopBreak(why).result
    /\ UNCHANGED << cfgVars, decoderVars, counterVars,
                    connectVars, wireLog, cur, parsedLog, chanVars,
                    closerVars, senderVars, connTerminated, closeCount,
                    nRead, nWritten >>

\* A loop that continues without sending whatever the channel is.
ParseNextPcDrop(ch) == "check"

\* A loop that goes on to the channel send whatever the channel is.
ParseNextPcSend(ch) == "send"

\* After a successful msg.Read: continue when no channel is configured,
\* otherwise go on to the channel send.
ParseNextPc(ch) == IF ch.nil THEN "check" ELSE "send"

\* msg.Read(c) succeeds.
ParseOk ==
    /\ lpc = "parse"
    /\ nRead' = nRead + BodyLen(wireLog[cur])
    /\ parsedLog' = Append(parsedLog, cur)
    /\ lpc' = ParseNextPc(cfgCh)
    /\ cur' = IF ParseNextPc(cfgCh) = "send" THEN cur ELSE 0
    /\ UNCHANGED << cfgVars, decoderVars, counterVars,
                    connectVars, lahStop, lahResult, wireLog,
                    chanVars, closerVars, senderVars, connTerminated,
                    closeCount, nWritten >>

\* msg.Read(c) fails.
ParseFail ==
    /\ lpc = "parse"
    /\ lpc' = LoopBreak("decode_err").pc
    /\ lahStop' = LoopBreak("decode_err").stop
    /\ lahResult' = LoopBreak("decode_err").result
    /\ UNCHANGED << cfgVars, decoderVars, counterVars,
                    connectVars, wireLog, cur, parsedLog, chanVars,
                    closerVars, senderVars, connTerminated, closeCount,
                    nRead, nWritten >>

\* A send that overtakes the values sent before it.
ChanSendOvertake(q, m) == << m >> \o q

\* A channel send puts the value behind everything sent before it.
ChanSend(q, m) == Append(q, m)

\* c.config.ServerMessageCh <- parsedMsg, into a free buffer slot.
SendMsg ==
    /\ lpc = "send" /\ ~cfgCh.nil
    /\ Len(chanBuf) < cfgCh.cap
    /\ chanBuf' = ChanSend(chanBuf, cur)
    /\ lpc' = "check" /\ cur' = 0
    /\ UNCHANGED << cfgVars, decoderVars, counterVars,
                    connectVars, lahStop, lahResult, wireLog,
                    parsedLog, consumed, closerVars, senderVars,
                    connTerminated, closeCount, nRead, nWritten >>

\* c.config.ServerMessageCh <- parsedMsg, handed to the waiting consumer.
SendHandOff ==
    /\ lpc = "send" /\ ~cfgCh.nil
    /\ chanBuf = << >>
    /\ consumed' = ChanSend(consumed, cur)
    /\ lpc' = "check" /\ cur' = 0
    /\ UNCHANGED << cfgVars, decoderVars, counterVars,
                    connectVars, lahStop, lahResult, wireLog,
                    parsedLog, chanBuf, closerVars, senderVars,
                    connTerminated, closeCount, nRead, nWritten >>

\* The consumer receives from the channel's buffer.
ConsumerReceive ==
    /\ chanBuf # << >>
    /\ consumed' = Append(consumed, Head(chanBuf))
    /\ chanBuf' = Tail(chanBuf)
    /\ UNCHANGED << cfgVars, decoderVars, counterVars,
                    connectVars, readerVars, closerVars, senderVars,
                    connTerminated, closeCount, nRead, nWritten >>

\* -------------------------------------------------------------------- send
\* A sender task calls send: the size is computed and binary.Write starts
\* writing to c.Conn. Nothing is acquired first.
SendBegin(s) ==
    /\ connResult = "conn"
    /\ spc[s] = "idle" /\ sends < MaxSends
    /\ sends' = sends + 1
    /\ spc' = [spc EXCEPT ![s] = "write"]
    /\ sLeft' = [sLeft EXCEPT ![s] = SendLen]
    /\ UNCHANGED << cfgVars, decoderVars, counterVars,
                    connectVars, readerVars, chanVars, closerVars,
                    interleaved, connTerminated, closeCount, nRead, nWritten >>

\* The transport takes one more byte of s's message.
SendWriteByte(s) ==
    /\ spc[s] = "write" /\ sLeft[s] > 0
    /\ sLeft' = [sLeft EXCEPT ![s] = sLeft[s] - 1]
    /\ nWritten' = nWritten + 1
    /\ interleaved' =
          (interleaved \/
           \E o \in SenderTasks \ {s} :
              spc[o] = "write" /\ sLeft[o] > 0 /\ sLeft[o] < SendLen)
    /\ UNCHANGED << cfgVars, decoderVars, counterVars,
                    connectVars, readerVars, chanVars, closerVars,
                    spc, sends, connTerminated, closeCount, nRead >>

\* binary.Write fails: send returns the error.
SendFail(s) ==
    /\ spc[s] = "write" /\ sLeft[s] > 0
    /\ spc' = [spc EXCEPT ![s] = "idle"]
    /\ sLeft' = [sLeft EXCEPT ![s] = 0]
    /\ UNCHANGED << cfgVars, decoderVars, counterVars,
                    connectVars, readerVars, chanVars, closerVars,
                    sends, interleaved, connTerminated, closeCount, nRead,
                    nWritten >>

\* binary.Write returned nil: the counter is adjusted and send returns nil.
SendEnd(s) ==
    /\ spc[s] = "write" /\ sLeft[s] = 0
    /\ spc' = [spc EXCEPT ![s] = "idle"]
    /\ bytesSent' = SendAdjust(bytesSent, SendLen)
    /\ UNCHANGED << cfgVars, decoderVars, bytesReceived,
                    connectVars, readerVars, chanVars, closerVars,
                    sLeft, sends, interleaved, connTerminated, closeCount,
                    nRead, nWritten >>

\* ------------------------------------------- receive, receiveN, send alone
\* Everything but the byte counters and the bytes on the transport.
connRest == << cfgVars, connectVars, readerVars, chanVars, closerVars,
               senderVars, connTerminated, closeCount >>

\* Sizes of the fixed-size values handed to receive and send.
FixedSizes == {1, 2, 4}
\* Destinations of receiveN: *[]uint8, *[]int32, *bytes.Buffer, anything else.
DestKinds == {"u8slice", "i32slice", "buffer", "other"}

\* Bytes on the wire of one element read by receiveN.
ElemSize(kind) == IF kind = "i32slice" THEN 4 ELSE 1

\* binary.Size of receiveN's destination holding len elements: the encoded
\* size of a slice of fixed-size elements; -1 for a bytes.Buffer, a struct
\* with a slice field, which is not a fixed-size value.
BinarySize(kind, len) ==
    CASE kind = "u8slice" -> len
      [] kind = "i32slice" -> 4 * len
      [] OTHER -> 0 - 1

\* receive(data) of a fixed-size value of sz bytes succeeds.
MReceive(sz) ==
    /\ mOps < MaxOps /\ mOps' = mOps + 1
    /\ nRead' = nRead + sz
    /\ bytesReceived' = GaugeAdjust(bytesReceived, sz)
    /\ UNCHANGED << connRest, notMetrics, bytesSent, nWritten >>

\* receive(data): binary.Read fails after got of the sz bytes.
MReceiveFail(sz, got) ==
    /\ mOps < MaxOps /\ mOps' = mOps + 1
    /\ got < sz
    /\ nRead' = nRead + got
    /\ UNCHANGED << connRest, notMetrics, counterVars, nWritten >>

\* receiveN(data, n) into a destination that already holds pre elements.
MReceiveN(kind, n, pre) ==
    /\ mOps < MaxOps /\ mOps' = mOps + 1
    /\ IF n = 0 \/ kind = "other"
       THEN UNCHANGED << nRead, bytesReceived >>
       ELSE /\ nRead' = nRead + n * ElemSize(kind)
            /\ bytesReceived' =
                  GaugeAdjust(bytesReceived, BinarySize(kind, pre + n))
    /\ UNCHANGED << connRest, notMetrics, bytesSent, nWritten >>

\* receiveN(data, n): the read of element k + 1 fails.
MReceiveNFail(kind, n, k) ==
    /\ mOps < MaxOps /\ mOps' = mOps + 1
    /\ kind # "other" /\ k < n
    /\ nRead' = nRead + k * ElemSize(kind)
    /\ UNCHANGED << connRest, notMetrics, counterVars, nWritten >>

\* send(data) of size bytes ([]byte or a fixed-size value) succeeds.
MSend(size) ==
    /\ mOps < MaxOps /\ mOps' = mOps + 1
    /\ nWritten' = nWritten + size
    /\ bytesSent' = SendAdjust(bytesSent, size)
    /\ UNCHANGED << connRest, notMetrics, bytesReceived, nRead >>

\* send(data): binary.Write fails.
MSendFail ==
    /\ mOps < MaxOps /\ mOps' = mOps + 1
    /\ UNCHANGED << connRest, notMetrics, counterVars, nRead, nWritten >>

\* CopyRectEncoding.Read: binary.Read(c.Conn, ...) of SrcX and SrcY, past
\* receive and its counter.
MCopyRectRead ==
    /\ mOps < MaxOps /\ mOps' = mOps + 1
    /\ nRead' = nRead + 4
    /\ UNCHANGED << connRest, notMetrics, counterVars, nWritten >>

\* ------------------------------------------------------------------- Tight
\* The connection outside the Tight decoder.
connAll == << connRest, counterVars, nRead, nWritten >>

\* Bit i of byte b.
Bit(b, i) == (b \div (2 ^ i)) % 2

\* A reset loop that tests the bit above the stream's own.
ResetStreamsShifted(z, b) ==
    [i \in Streams |-> IF Bit(b, i + 1) # 0 THEN AbsentStream ELSE z[i]]

\* The reset loop: stream i is closed and set to nil when bit i of the
\* control byte is set.
ResetStreams(z, b) ==
    [i \in Streams |-> IF Bit(b, i) # 0 THEN AbsentStream ELSE z[i]]

\* filterID := (subencoding >> 4) & 0x0F
FilterID(b) == (b \div 16) % 16

\* A filter check that lets the JPEG id through.
FilterOkJpeg(f) == f <= 2 \/ f = 8

\* The filters that are decoded: Copy, Palette, Gradient.
FilterOk(f) == f # 8 /\ f <= 2

\* Reset bits and filter ids of the control bytes the server sends.
ResetMasks == {0, 1, 2, 3, 4, 6, 15}
FilterIDs == {0, 1, 2, 3, 8, 15}
ControlBytes == { f * 16 + r : f \in FilterIDs, r \in ResetMasks }

\* The server's side of a control byte: it restarts its stream i when it
\* sets reset bit i.
ServerReset(h, b) ==
    [i \in Streams |-> IF Bit(b, i) # 0 THEN << >> ELSE h[i]]

\* TightEncoding.Read up to the filter dispatch: the control byte is read,
\* the streams are reset, the filter id is checked.
TightControl(b) ==
    /\ tpc = "idle" /\ tRects < MaxTightRects
    /\ tRects' = tRects + 1
    /\ tctl' = b
    /\ zPrev' = zlibs
    /\ zlibs' = ResetStreams(zlibs, b)
    /\ srvHist' = ServerReset(srvHist, b)
    /\ nRead' = nRead + 1
    /\ IF FilterOk(FilterID(b))
       THEN tpc' = "filter" /\ tResult' = "none"
       ELSE tpc' = "idle" /\ tResult' = "err"
    /\ UNCHANGED << connRest, counterVars, nWritten, notTight >>

\* A decoder that decompresses every filter through stream 0.
FilterStreamShared(f) == 0

\* The zlibStream each filter passes to readCompressedData: readTightCopy 0,
\* readTightPalette 1, readTightGradient 2.
FilterStream(f) == CASE f = 0 -> 0 [] f = 1 -> 1 [] OTHER -> 2

\* zlib.NewReader over the chunk: a reader that has seen this chunk only.
ZlibNewReader(c) == [present |-> TRUE, hist |-> << c >>]

\* Resetter.Reset over the chunk: the reader is as if newly initialized
\* with the chunk; what it decompressed before is discarded.
ZlibReset(z, c) == [present |-> TRUE, hist |-> << c >>]

\* readCompressedData's use of stream z for chunk c.
ZlibFeed(z, c) == IF ~z.present THEN ZlibNewReader(c) ELSE ZlibReset(z, c)

\* readCompressedData with a length of zero: no stream is touched.
TightEmpty ==
    /\ tpc = "filter"
    /\ tpc' = "idle" /\ tResult' = "ok"
    /\ nRead' = nRead + 1
    /\ UNCHANGED << connRest, counterVars, nWritten, notTight, zlibs, zPrev,
                    srvHist, tctl, tRects >>

\* readCompressedData with a chunk, the rectangle's, of the server's stream
\* FilterID(tctl); the chunk opens with a zlib header exactly when it is the
\* first of that stream. A chunk without a header makes NewReader fail and
\* leave the slot nil; Reset keeps the reader; decompression may fail.
TightData(ok) ==
    /\ tpc = "filter"
    /\ LET st == FilterStream(FilterID(tctl))
           c == tRects
           hdr == srvHist[st] = << >>
       IN /\ srvHist' = [srvHist EXCEPT ![st] = Append(@, c)]
          /\ IF ~zlibs[st].present /\ ~hdr
             THEN zlibs' = zlibs /\ tResult' = "err"
             ELSE /\ zlibs' = [zlibs EXCEPT ![st] = ZlibFeed(@, c)]
                  /\ tResult' = IF ok THEN "ok" ELSE "err"
    /\ tpc' = "idle"
    /\ nRead' = nRead + 2
    /\ UNCHANGED << connRest, counterVars, nWritten, notTight, zPrev, tctl,
                    tRects >>

\* ------------------------------------------------ Tight: the compact length
\* Byte values the wire is drawn from.
ByteSamples == {0, 1, 127, 128, 129, 255}

\* The 1-to-3-byte compact encoding of v: 7 data bits per byte, least
\* significant group first, high bit = another byte follows.
CompactEncode(v) ==
    IF v < 128 THEN << v >>
    ELSE IF v < 16384 THEN << 128 + (v % 128), v \div 128 >>
    ELSE << 128 + (v % 128), 128 + ((v \div 128) % 128), v \div 16384 >>

\* The lengths whose encodings are put on the wire.
CompactSamples ==
    (0..MaxCompactSmall) \cup
    {127, 128, 129, 255, 256, 16383, 16384, 16385, 65535, 65536,
     2 ^ 21 - 129, 2 ^ 21 - 128, 2 ^ 21 - 1}

\* The wires: an encoding followed by the chunk's first bytes, or any bytes.
CompactWires ==
    { CompactEncode(v) \o << t, t >> : v \in CompactSamples, t \in {0, 255} }
    \cup { << a, b, c, 255 >> : a, b, c \in ByteSamples }

\* A length loop whose groups are 8 bits apart.
CompactPartShift8(len, part, i) == len + ((part % 128) * (2 ^ (i * 8)))

\* length |= int(part&0x7F) << (i * 7); the bits set are clear in length, so
\* the or adds.
CompactPart(len, part, i) == len + ((part % 128) * (2 ^ (i * 7)))

\* The loop goes on after byte i: its high bit is set and i + 1 < 3.
CompactMore(part, i) == part >= 128 /\ i + 1 < 3

\* One turn of the length loop: a byte is read and added.
CompactReadByte ==
    /\ kPc = "loop" /\ kPos < Len(kWire)
    /\ LET part == kWire[kPos + 1]
       IN /\ kLen' = CompactPart(kLen, part, kI)
          /\ kPc' = IF CompactMore(part, kI) THEN "loop" ELSE "done"
    /\ kPos' = kPos + 1
    /\ kI' = kI + 1
    /\ UNCHANGED << connAll, notCompact, kWire >>

\* The read of a length byte fails.
CompactReadFail ==
    /\ kPc = "loop"
    /\ kPc' = "err"
    /\ UNCHANGED << connAll, notCompact, kWire, kPos, kLen, kI >>

\* ------------------------------------------- Tight: the monochrome palette
\* Byte values of the index stream.
IndexBytes == {0, 64, 128}

\* Rectangle widths.
PalWidths == (1..MaxPalW) \cup {8, 9}

\* Bytes of one row padded to a whole byte.
RowBytes(w) == (w + 7) \div 8

\* Sequences of n index bytes.
RECURSIVE ByteSeqs(_)
ByteSeqs(n) ==
    IF n = 0 THEN { << >> }
    ELSE { Append(q, b) : q \in ByteSeqs(n - 1), b \in IndexBytes }

\* The index streams of a w x h rectangle: the padded rows, or a byte less.
PalStreams(w, h) ==
    ByteSeqs(h * RowBytes(w)) \cup ByteSeqs(h * RowBytes(w) - 1)

\* index := (byteVal >> uint(i)) & 1
PaletteIndex(byteVal, i) == Bit(byteVal, i)

\* One turn of the inner loop: a pixel is written, or palette[index] is out
\* of range.
PaletteBit ==
    /\ pPc = "loop" /\ pK < Len(pData) /\ Len(pOut) < pW * pH
    /\ LET index == PaletteIndex(pData[pK + 1], pI)
       IN IF index >= pP
          THEN pPc' = "panic" /\ UNCHANGED << pOut, pK, pI >>
          ELSE /\ pOut' = Append(pOut, index)
               /\ pK' = IF pI = 0 THEN pK + 1 ELSE pK
               /\ pI' = IF pI = 0 THEN 7 ELSE pI - 1
               /\ pPc' = "loop"
    /\ UNCHANGED << connAll, notPalette, pW, pH, pP, pData >>

\* The loops end, on the last pixel or the last byte, and the size is checked.
PaletteFinish ==
    /\ pPc = "loop" /\ (pK = Len(pData) \/ Len(pOut) >= pW * pH)
    /\ pPc' = IF Len(pOut) = pW * pH THEN "done" ELSE "err"
    /\ UNCHANGED << connAll, notPalette, pW, pH, pP, pData, pK, pI, pOut >>

\* ------------------------------------------------------------------ Hextile
\* Colours the server specifies, and the colour of the pixels of a raw tile.
HexColours == {1, 2}
HexRawColours == {3}

\* Subencoding masks: none, raw, background, foreground, both, sub-rectangles,
\* coloured sub-rectangles.
HexMasks == {0, 1, 2, 4, 6, 8, 24}

\* numberOfSubRects.
HexCounts == {0, 1}

\* Sub-rectangle geometries << xy, wh >>: 1x1 at (0,0), 2x1 at (1,0), 1x2 at
\* (0,15), 2x2 at (15,15).
HexGeoms == { << 0, 0 >>, << 16, 16 >>, << 15, 1 >>, << 255, 17 >> }

\* The rectangles << width, height >>.
HexRects ==
    { << 1, 1 >>, << 2, 2 >>, << 17, 2 >>, << 2, 17 >>,
      << 16 * (MaxHexTiles - 1) + 1, 1 >> }

\* uint16 arithmetic.
U16(n) == n % 65536

\* tileW (tileH): 16, or what is left of the rectangle.
TileExtent(total, at) == IF U16(total - at) < 16 THEN U16(total - at) ELSE 16

\* The nested pixel loops: every index py * rect.Width + px below len(colors)
\* with (px, py) in the w x h block at (x0, y0) gets colour col.
PaintBlock(colors, x0, y0, w, h, col) ==
    [idx \in DOMAIN colors |->
        IF \E sy \in 0..(h - 1) :
              LET d == idx - (U16(y0 + sy) * hW) - x0
              IN d >= 0 /\ d < w
        THEN col ELSE colors[idx]]

\* A decoder that forgets the colour a tile does not specify.
TileColourForget(mask, bit, colour, in) ==
    IF Bit(mask, bit) # 0 THEN in ELSE ZeroColor

\* backgroundColor (bit 1) or foregroundColor (bit 2) after the tile's header.
TileColour(mask, bit, colour, in) ==
    IF Bit(mask, bit) # 0 THEN in ELSE colour

\* subX, subY, subW, subH.
SubX(xy) == (xy \div 16) % 16
SubY(xy) == xy % 16
SubW(wh) == ((wh \div 16) % 16) + 1
SubH(wh) == (wh % 16) + 1

\* The loops step to the next tile, or end.
HexNextTile ==
    IF hX + 16 < hW
    THEN hX' = hX + 16 /\ hY' = hY /\ hPc' = "tile"
    ELSE /\ hX' = 0 /\ hY' = hY + 16
         /\ hPc' = IF hY + 16 < hH THEN "tile" ELSE "done"

\* A tile with the raw bit: its pixels are read, the colours are left alone.
HextileRawTile ==
    /\ hPc = "tile"
    /\ \E mask \in HexMasks, c \in HexRawColours :
          /\ Bit(mask, 0) # 0
          /\ hMask' = mask
          /\ hColors' = PaintBlock(hColors, hX, hY, TileExtent(hW, hX),
                                   TileExtent(hH, hY), c)
    /\ HexNextTile
    /\ UNCHANGED << connAll, notHextile, hW, hH, hBg, hFg, hLeft, hXY, hWH,
                    hSentBg, hSentFg >>

\* A tile without the raw bit: colours, fill, and the sub-rectangle count.
HextileTile ==
    /\ hPc = "tile"
    /\ \E mask \in HexMasks, inBg \in HexColours, inFg \in HexColours,
          n \in HexCounts :
          /\ Bit(mask, 0) = 0
          /\ Bit(mask, 1) = 0 => inBg = 1
          /\ Bit(mask, 2) = 0 => inFg = 1
          /\ Bit(mask, 3) = 0 => n = 0
          /\ hMask' = mask
          /\ hBg' = TileColour(mask, 1, hBg, inBg)
          /\ hFg' = TileColour(mask, 2, hFg, inFg)
          /\ hSentBg' = IF Bit(mask, 1) # 0 THEN inBg ELSE hSentBg
          /\ hSentFg' = IF Bit(mask, 2) # 0 THEN inFg ELSE hSentFg
          /\ hColors' = PaintBlock(hColors, hX, hY, TileExtent(hW, hX),
                                   TileExtent(hH, hY), hBg')
          /\ hLeft' = n
          /\ IF n > 0
             THEN hPc' = "sub" /\ UNCHANGED << hX, hY >>
             ELSE HexNextTile
    /\ UNCHANGED << connAll, notHextile, hW, hH, hXY, hWH >>

\* One sub-rectangle of the tile: colour, geometry, paint.
HextileSubRect ==
    /\ hPc = "sub"
    /\ \E c \in HexColours, g \in HexGeoms :
          /\ Bit(hMask, 4) = 0 => c = 1
          /\ hXY' = g[1] /\ hWH' = g[2]
          /\ LET subRectColor == IF Bit(hMask, 4) # 0 THEN c ELSE hFg
             IN hColors' = PaintBlock(hColors, U16(hX + SubX(g[1])),
                                      U16(hY + SubY(g[1])), SubW(g[2]),
                                      SubH(g[2]), subRectColor)
    /\ hLeft' = hLeft - 1
    /\ IF hLeft' > 0
       THEN hPc' = "sub" /\ UNCHANGED << hX, hY >>
       ELSE HexNextTile
    /\ UNCHANGED << connAll, notHextile, hW, hH, hBg, hFg, hMask,
                    hSentBg, hSentFg >>

\* A read of the rectangle's bytes fails.
HextileReadFail ==
    /\ hPc \in {"tile", "sub"}
    /\ hPc' = "err"
    /\ UNCHANGED << connAll, notHextile, hW, hH, hX, hY, hColors, hBg, hFg,
                    hMask, hLeft, hXY, hWH, hSentBg, hSentFg >>

\* ---------------------------------------------------------------------- Raw
\* The p-th byte the server sends for the rectangle (p from 1).
WireByte(p) == p % 256

\* rect.Area()
Area(w, h) == w * h

\* Color.Unmarshal: the colour of a pixel value of bytesPerPixel bytes.
ColorUnmarshal(bs) == [pixel |-> bs]

\* A decoder whose k-th group starts k bytes into buf.
BufNextOverlap(buf, k, b) == SubSeq(buf, k + 1, k + b)

\* The k-th call (k from 0) of buf.Next(b) on buf.
BufNext(buf, k, b) == SubSeq(buf, k * b + 1, k * b + b)

\* colors after the pixel loops: call number y * w + x of buf.Next, made in
\* the order of the loops, lands at index y * w + x.
RawColors(buf, w, h, b) ==
    [i \in 1..Area(w, h) |->
        LET xy == CHOOSE q \in (0..(w - 1)) \X (0..(h - 1)) :
                      q[2] * w + q[1] = i - 1
        IN ColorUnmarshal(BufNext(buf, xy[2] * w + xy[1], b))]

\* One turn of receiveN's loop for a *bytes.Buffer: a byte goes to buf.
RawReceiveByte ==
    /\ rPc = "recv" /\ Len(rBuf) < Area(rW, rH) * rB /\ nRead < rAvail
    /\ nRead' = nRead + 1
    /\ rBuf' = Append(rBuf, WireByte(nRead'))
    /\ UNCHANGED << connRest, counterVars, nWritten, notRaw,
                    rW, rH, rB, rAvail, rColors, rPc >>

\* The read of a byte fails: Read returns nil and the error.
RawReceiveFail ==
    /\ rPc = "recv" /\ Len(rBuf) < Area(rW, rH) * rB /\ nRead >= rAvail
    /\ rPc' = "err"
    /\ UNCHANGED << connAll, notRaw, rW, rH, rB, rAvail, rBuf, rColors >>

\* receiveN returns (at once when n is 0, else after the gauge is adjusted)
\* and the pixel loops fill colors.
RawDecode ==
    /\ rPc = "recv" /\ Len(rBuf) = Area(rW, rH) * rB
    /\ bytesReceived' =
          IF Area(rW, rH) * rB = 0 THEN bytesReceived
          ELSE GaugeAdjust(bytesReceived, BinarySize("buffer", Len(rBuf)))
    /\ rColors' = RawColors(rBuf, rW, rH, rB)
    /\ rPc' = "done"
    /\ UNCHANGED << connRest, bytesSent, nRead, nWritten, notRaw,
                    rW, rH, rB, rAvail, rBuf >>

\* ------------------------------------------------------------- DesktopSize
\* Framebuffer and rectangle sizes.
DeskWidths == {0, 640, 800, 65535}
DeskHeights == {0, 480, 600, 65535}

\* Desktop names.
DeskNames == {"", "host"}

\* A decoder that takes the width for the height.
DesktopSizeFbSwapped(w, h) == [w |-> h, h |-> w]

\* c.fbWidth = rect.Width; c.fbHeight = rect.Height
DesktopSizeFb(w, h) == [w |-> w, h |-> h]

\* DesktopSizePseudoEncoding.Read on a rectangle of width w and height h.
DesktopSizeRead(w, h) ==
    /\ dReads < MaxDesktopReads /\ dReads' = dReads + 1
    /\ dRect' = [w |-> w, h |-> h]
    /\ fbWidth' = DesktopSizeFb(w, h).w
    /\ fbHeight' = DesktopSizeFb(w, h).h
    /\ dResult' = "ok"
    /\ UNCHANGED << connAll, notDesktop, pixelFormat, colorMap, encodings,
                    desktopName >>

\* SetDesktopName
SetDesktopName(name) ==
    /\ desktopName' = name
    /\ UNCHANGED << connAll, notDesktop, fbWidth, fbHeight, pixelFormat,
                    colorMap, encodings, dRect, dReads, dResult >>

\* SetFramebufferWidth
SetFramebufferWidth(width) ==
    /\ fbWidth' = width
    /\ UNCHANGED << connAll, notDesktop, fbHeight, pixelFormat, colorMap,
                    encodings, desktopName, dRect, dReads, dResult >>

\* SetFramebufferHeight
SetFramebufferHeight(height) ==
    /\ fbHeight' = height
    /\ UNCHANGED << connAll, notDesktop, fbWidth, pixelFormat, colorMap,
                    encodings, desktopName, dRect, dReads, dResult >>

\* ------------------------------------------------------------- the context
\* The caller cancels the context it passed to Connect. Connect looks up
\* one value of the context; nothing waits for its cancellation.
CancelContext ==
    /\ ~ctxDone
    /\ ctxDone' = TRUE
    /\ UNCHANGED << connAll, notCancel >>

\* ------------------------------------------- bufr and direct reads of Conn
\* bufio.NewReaderSize(c, 1024)
BufrSize == 1024

\* Stream positions from + 1 .. from + k.
Positions(from, k) == [j \in 1..k |-> from + j]

\* The server's next byte arrives.
BServerSend ==
    /\ bArrived < MaxWire
    /\ bArrived' = bArrived + 1
    /\ UNCHANGED << connAll, notBufr, bSock, bBuf, bLog >>

\* bufr fills its empty buffer with one Read of Conn: the k bytes that Read
\* returns, at most the buffer's size.
BufrFill(k) == IF k <= BufrSize THEN k ELSE BufrSize

\* c.receive of one byte (the message type; receiveN's loop for Raw data):
\* served from bufr's buffer, which is first filled from Conn when empty.
BReceive ==
    /\ \/ /\ bBuf # << >>
          /\ bLog' = Append(bLog, Head(bBuf))
          /\ bBuf' = Tail(bBuf)
          /\ bSock' = bSock
       \/ /\ bBuf = << >> /\ bArrived > bSock
          /\ \E k \in 1..(bArrived - bSock) :
                LET got == Positions(bSock, BufrFill(k))
                IN /\ bLog' = Append(bLog, Head(got))
                   /\ bBuf' = Tail(got)
                   /\ bSock' = bSock + Len(got)
    /\ nRead' = nRead + 1
    /\ bytesReceived' = GaugeAdjust(bytesReceived, 1)
    /\ UNCHANGED << connRest, bytesSent, nWritten, notBufr, bArrived >>

\* A decoder reads one byte with binary.Read(c.Conn, ...): the next byte of
\* Conn, whatever bufr holds.
BConnRead ==
    /\ bArrived > bSock
    /\ bLog' = Append(bLog, bSock + 1)
    /\ bSock' = bSock + 1
    /\ nRead' = nRead + 1
    /\ UNCHANGED << connRest, counterVars, nWritten, notBufr, bArrived, bBuf >>

\* ------------------------------------------------ Tight: the filters' sizes
\* pixelFormat.BPP
BitsPerPixel == {8, 16, 24, 32}

\* Palette sizes: one colour, two, more.
PaletteSizes == {1, 2, 3}

\* int(rect.Width) * int(rect.Height) * bytesPerPixel
RasterSize(w, h, bytesPerPixel) == w * h * bytesPerPixel

\* A size check that accepts a longer stream.
SizeOkAtLeast(got, want) == got >= want

\* if len(data) != uncompressedSize (pixelData.Len() != expectedSize): error
SizeOk(got, want) == got = want

\* Bytes of one colour as Color.Marshal returns it.
MarshalLen(bytesPerPixel) == bytesPerPixel

\* Pixels the monochrome loops write from a stream of len bytes.
MonoPixels(len, totalPixels) ==
    IF 8 * len < totalPixels THEN 8 * len ELSE totalPixels

\* The result of a filter: a payload of n bytes, or an error.
SizeResult(ok, n) ==
    IF ok THEN [res |-> "ok", out |-> n] ELSE [res |-> "err", out |-> 0 - 1]

\* readTightCopy: the decompressed data is the raster if its size is right.
TightCopySize ==
    /\ sRes = "none" /\ sFilter = 0
    /\ LET bytesPerPixel == (sBPP + 7) \div 8
           r == SizeResult(SizeOk(sLen, RasterSize(sW, sH, bytesPerPixel)),
                           sLen)
       IN sRes' = r.res /\ sOut' = r.out
    /\ UNCHANGED << connAll, notTightSize, sW, sH, sBPP, sFilter, sP, sLen,
                    sBad >>

\* readTightPalette: each index (each bit when paletteSize <= 2) gives one
\* marshalled colour of bytesPerPixel bytes; an index past the palette is an
\* error on the indexed path and an out-of-range access on the monochrome
\* one; the size of the expanded data is checked.
TightPaletteSize ==
    /\ sRes = "none" /\ sFilter = 1
    /\ LET bytesPerPixel == sBPP \div 8
           written == IF sP <= 2 THEN MonoPixels(sLen, sW * sH) ELSE sLen
           r == SizeResult(SizeOk(written * MarshalLen(bytesPerPixel),
                                  RasterSize(sW, sH, bytesPerPixel)),
                           written * MarshalLen(bytesPerPixel))
       IN IF sBad /\ sP <= 2
          THEN sRes' = "panic" /\ sOut' = 0 - 1
          ELSE IF sBad
          THEN sRes' = "err" /\ sOut' = 0 - 1
          ELSE sRes' = r.res /\ sOut' = r.out
    /\ UNCHANGED << connAll, notTightSize, sW, sH, sBPP, sFilter, sP, sLen,
                    sBad >>

\* readTightGradient: 3 or 4 bytes per pixel; the raster is allocated at its
\* size and one correction byte is read for each of its bytes.
TightGradientSize ==
    /\ sRes = "none" /\ sFilter = 2
    /\ LET bytesPerPixel == sBPP \div 8
           r == SizeResult(sLen >= RasterSize(sW, sH, bytesPerPixel),
                           RasterSize(sW, sH, bytesPerPixel))
       IN IF bytesPerPixel # 3 /\ bytesPerPixel # 4
          THEN sRes' = "err" /\ sOut' = 0 - 1
          ELSE sRes' = r.res /\ sOut' = r.out
    /\ UNCHANGED << connAll, notTightSize, sW, sH, sBPP, sFilter, sP, sLen,
                    sBad >>

\* readCompressedData fails: the filter returns its error.
TightSizeReadFail ==
    /\ sRes = "none"
    /\ sRes' = "err" /\ sOut' = 0 - 1
    /\ UNCHANGED << connAll, notTightSize, sW, sH, sBPP, sFilter, sP, sLen,
                    sBad >>

\* --------------------------------------------------- Tight: the gradient
\* Correction values of a pixel's first byte.
GradCorrections == {0, 56, 200}

\* The rectangles and pixel sizes << width, height, bytesPerPixel >>.
GradInputs ==
    ((0..MaxGradW) \X (0..MaxGradH) \X {2, 3, 4}) \cup { << 16385, 1, 4 >> }

\* Byte i of slice d.
ByteAt(d, i) == IF i \in DOMAIN d THEN d[i] ELSE 0

\* Position k of the correction stream in which pixel i starts with cs[i+1]:
\* the byte at position b of a pixel is its first byte times b + 1.
CorrByte(cs, bpp, k) ==
    IF (k \div bpp) + 1 \in DOMAIN cs
    THEN (cs[(k \div bpp) + 1] * ((k % bpp) + 1)) % 256
    ELSE 0
CorrStream(cs, bpp) ==
    LET nz == { k \in 0..(Len(cs) * bpp - 1) : CorrByte(cs, bpp, k) # 0 }
    IN [k \in nz |-> CorrByte(cs, bpp, k)]

\* Sequences over GradCorrections of length n.
RECURSIVE CorrSeqs(_)
CorrSeqs(n) ==
    IF n = 0 THEN { << >> }
    ELSE { Append(q, c) : q \in CorrSeqs(n - 1), c \in GradCorrections }

\* The pixels whose corrections vary: the first ones of a small rectangle,
\* the corrections of the others being zero.
GradVaried(w, h) ==
    IF w > MaxGradW \/ h > MaxGradH THEN 0
    ELSE IF w * h < MaxCorrPixels THEN w * h ELSE MaxCorrPixels

\* offset := ((y * rect.Width) + x) * uint16(bytesPerPixel), in uint16.
PixelOffset(x, y, w, bpp) == U16(U16(U16(y * w) + x) * bpp)

\* pixelData[lo:hi] panics when the bounds are not lo <= hi <= len.
BadSlice(lo, hi, len) == lo > hi \/ hi > len

\* The slice pixelData[offset:offset+uint16(bytesPerPixel)] of a neighbour
\* is out of bounds.
BadNeighbour(x, y, w, bpp, len) ==
    BadSlice(PixelOffset(x, y, w, bpp), U16(PixelOffset(x, y, w, bpp) + bpp),
             len)

\* Pixel (x, y) panics: one of its neighbour slices, or one of the indexes
\* it writes, is out of bounds.
PixelPanics(x, y, w, bpp, len) ==
    \/ x > 0 /\ BadNeighbour(x - 1, y, w, bpp, len)
    \/ y > 0 /\ BadNeighbour(x, y - 1, w, bpp, len)
    \/ x > 0 /\ y > 0 /\ BadNeighbour(x - 1, y - 1, w, bpp, len)
    \/ \E b \in 0..(bpp - 1) : U16(PixelOffset(x, y, w, bpp) + b) >= len

\* Clamp predictor
Clamp255(pred) == IF pred < 0 THEN 0 ELSE IF pred > 255 THEN 255 ELSE pred

\* Byte b of pixel (x, y): byte(pred) + correction.
GradByte(d, corr, x, y, w, bpp, b) ==
    LET p1 == IF x > 0 THEN ByteAt(d, PixelOffset(x - 1, y, w, bpp) + b)
              ELSE 0
        p2 == IF y > 0 THEN ByteAt(d, PixelOffset(x, y - 1, w, bpp) + b)
              ELSE 0
        p3 == IF x > 0 /\ y > 0
              THEN ByteAt(d, PixelOffset(x - 1, y - 1, w, bpp) + b)
              ELSE 0
    IN (Clamp255(p1 + p2 - p3) + ByteAt(corr, (y * w + x) * bpp + b)) % 256

\* pixelData after pixel (x, y).
GradPixel(d, corr, x, y, w, bpp) ==
    LET at(b) == U16(PixelOffset(x, y, w, bpp) + b)
        new(j) == IF \E b \in 0..(bpp - 1) : at(b) = j
                  THEN GradByte(d, corr, x, y, w, bpp,
                                CHOOSE b \in 0..(bpp - 1) : at(b) = j)
                  ELSE d[j]
        dom == DOMAIN d \cup { at(b) : b \in 0..(bpp - 1) }
    IN [j \in { i \in dom : new(i) # 0 } |-> new(j)]

\* pixelData after the pixels x .. w - 1 of row y.
RECURSIVE GradRow(_, _, _, _, _, _)
GradRow(d, corr, x, y, w, bpp) ==
    IF x >= w THEN d
    ELSE GradRow(GradPixel(d, corr, x, y, w, bpp), corr, x + 1, y, w, bpp)

\* readTightGradient up to its loops: the pixel size is checked, then
\* readCompressedData returns the corrections.
GradientBegin ==
    /\ gPc = "start"
    /\ gPc' = IF gB # 3 /\ gB # 4 THEN "err"
              ELSE IF gH = 0 THEN "done" ELSE "loop"
    /\ UNCHANGED << connAll, notGradient, gW, gH, gB, gCorr, gCorrLen, gY,
                    gData >>

\* readCompressedData fails.
GradientReadFail ==
    /\ gPc = "start"
    /\ gPc' = "err"
    /\ UNCHANGED << connAll, notGradient, gW, gH, gB, gCorr, gCorrLen, gY,
                    gData >>

\* One row of the pixel loops. The row stops at its first pixel that panics
\* or that finds the corrections exhausted; a pixel reads its neighbours
\* before its corrections.
GradientRow ==
    /\ gPc = "loop"
    /\ LET len == gW * gH * gB
           panics == { x \in 0..(gW - 1) : PixelPanics(x, gY, gW, gB, len) }
           starved == { x \in 0..(gW - 1) :
                          (gY * gW + x + 1) * gB > gCorrLen }
           first(S) == CHOOSE x \in S : \A z \in S : x <= z
       IN IF panics # {} /\ (starved = {} \/ first(panics) <= first(starved))
          THEN gPc' = "panic" /\ UNCHANGED << gData, gY >>
          ELSE IF starved # {}
          THEN gPc' = "err" /\ UNCHANGED << gData, gY >>
          ELSE /\ gData' = GradRow(gData, gCorr, 0, gY, gW, gB)
               /\ gY' = gY + 1
               /\ gPc' = IF gY + 1 < gH THEN "loop" ELSE "done"
    /\ UNCHANGED << connAll, notGradient, gW, gH, gB, gCorr, gCorrLen >>

\* --------------------------------------------------- Hextile: the tiling
\* Rectangle origins and extents.
LoopOrigins == {0, 65520, 65530}
LoopExtents == {1, 10, 16, 17, 33}

\* for y := rect.Y; y < rect.Y+rect.Height: the row is entered, or the
\* rectangle is done.
HextileRowCheck ==
    /\ lPc = "outer"
    /\ IF ly < U16(lRect.Y + lRect.Height)
       THEN lx' = lRect.X /\ lPc' = "inner"
       ELSE lx' = lx /\ lPc' = "done"
    /\ UNCHANGED << connAll, notLoop, lRect, ly, lTiles >>

\* for x := rect.X; x < rect.X+rect.Width; x += 16: the tile at (x, y) gets
\* its extent and its mask is read; x += 16.
HextileTileMask ==
    /\ lPc = "inner"
    /\ lx < U16(lRect.X + lRect.Width)
    /\ Len(lTiles) < MaxLoopTiles
    /\ lTiles' = Append(lTiles,
                        [px |-> U16(lx - lRect.X), py |-> U16(ly - lRect.Y),
                         tileW |-> TileExtent(lRect.X + lRect.Width, lx),
                         tileH |-> TileExtent(lRect.Y + lRect.Height, ly)])
    /\ lx' = U16(lx + 16)
    /\ UNCHANGED << connAll, notLoop, lRect, ly, lPc >>

\* The row's loop ends; y += 16.
HextileRowEnd ==
    /\ lPc = "inner"
    /\ ~(lx < U16(lRect.X + lRect.Width))
    /\ ly' = U16(ly + 16)
    /\ lPc' = "outer"
    /\ UNCHANGED << connAll, notLoop, lRect, lx, lTiles >>

\* The tile's mask, or what follows it, cannot be read.
HextileTileFail ==
    /\ lPc = "inner"
    /\ lx < U16(lRect.X + lRect.Width)
    /\ lPc' = "err"
    /\ UNCHANGED << connAll, notLoop, lRect, lx, ly, lTiles >>

\* ---------------------------------------------------------- specifications
ConnectNext == ConnectStart \/ ConnectStepOk \/ ConnectStepFail

ReaderNext ==
    \/ ListenStart
    \/ LoopCheck
    \/ \E t \in WireTypes : ReceiveType(t)
    \/ ReceiveFail
    \/ ParseOk
    \/ ParseFail
    \/ SendMsg
    \/ SendHandOff
    \/ ConsumerReceive

CloserNext ==
    \E t \in CloserTasks : CloseEnter(t) \/ CloseSetFlag(t) \/ CloseTransport(t)

SenderNext ==
    \E s \in SenderTasks :
        SendBegin(s) \/ SendWriteByte(s) \/ SendFail(s) \/ SendEnd(s)

\* Connect, then the reader task, its consumer and concurrent closer tasks.
Next == ConnectNext \/ ReaderNext \/ CloserNext
Spec == Init /\ [][Next]_vars

\* The same with a single task calling Close, one call after the other.
InitSeq == InitConfig /\ closers = {1} /\ InitConn /\ InitDecoders
SpecSeq == InitSeq /\ [][Next]_vars

\* Connect, then concurrent sender tasks.
NextSend == ConnectNext \/ SenderNext
SpecSend == Init /\ [][NextSend]_vars

\* A connection as NewClientConfig and NewClientConn make it.
InitDefaultConn ==
    /\ mpv = Unset
    /\ cfgMsgs = [nil |-> FALSE, types |-> NewClientConfigMessages]
    /\ cfgCh = [nil |-> TRUE, cap |-> 0]
    /\ closers = CloserTasks
    /\ InitConn

\* receive, receiveN, send and a decoder's direct read, in any sequence.
NextMetrics ==
    \/ MCopyRectRead
    \/ \E sz \in FixedSizes : MReceive(sz)
    \/ \E sz \in FixedSizes, got \in 0..MaxN : MReceiveFail(sz, got)
    \/ \E kind \in DestKinds, n \in 0..MaxN, pre \in 0..MaxPre :
          MReceiveN(kind, n, pre)
    \/ \E kind \in DestKinds, n \in 0..MaxN, k \in 0..MaxN :
          MReceiveNFail(kind, n, k)
    \/ \E size \in FixedSizes \cup 0..MaxN : MSend(size)
    \/ MSendFail
InitMetrics == InitDefaultConn /\ InitDecoders
SpecMetrics == InitMetrics /\ [][NextMetrics]_vars

\* Tight rectangles, one after the other.
NextTight ==
    \/ \E b \in ControlBytes : TightControl(b)
    \/ TightEmpty
    \/ \E ok \in BOOLEAN : TightData(ok)
InitTightSpec == InitDefaultConn /\ InitDecoders
SpecTight == InitTightSpec /\ [][NextTight]_vars

\* readCompressedData's length loop over each wire.
InitCompact ==
    /\ InitDefaultConn /\ IdleButCompact
    /\ kWire \in CompactWires
    /\ kPos = 0 /\ kLen = 0 /\ kI = 0 /\ kPc = "loop"
NextCompact == CompactReadByte \/ CompactReadFail
SpecCompact == InitCompact /\ [][NextCompact]_vars

\* readTightPalette's monochrome expansion over each rectangle and stream.
InitPalette ==
    /\ InitDefaultConn /\ IdleButPalette
    /\ pW \in PalWidths /\ pH \in 1..MaxPalH /\ pP \in {1, 2}
    /\ pData \in PalStreams(pW, pH)
    /\ pK = 0 /\ pI = 7 /\ pOut = << >> /\ pPc = "loop"
NextPalette == PaletteBit \/ PaletteFinish
SpecPalette == InitPalette /\ [][NextPalette]_vars

\* HextileEncoding.Read over each rectangle.
InitHextile ==
    /\ InitDefaultConn /\ IdleButHextile
    /\ \E r \in HexRects : InitHextileRect(r[1], r[2], "tile")
NextHextile ==
    HextileRawTile \/ HextileTile \/ HextileSubRect \/ HextileReadFail
SpecHextile == InitHextile /\ [][NextHextile]_vars

\* RawEncoding.Read over each rectangle, pixel size and connection.
InitRaw ==
    /\ InitDefaultConn /\ IdleButRaw
    /\ rW \in 0..MaxRawW /\ rH \in 0..MaxRawH /\ rB \in FixedSizes
    /\ rAvail \in 0..(Area(rW, rH) * rB + 1)
    /\ rBuf = << >> /\ rColors = << >> /\ rPc = "recv"
NextRaw == RawReceiveByte \/ RawReceiveFail \/ RawDecode
SpecRaw == InitRaw /\ [][NextRaw]_vars

\* DesktopSize rectangles and the setters on a connection.
InitDesktop ==
    /\ InitDefaultConn /\ IdleButDesktop
    /\ fbWidth \in DeskWidths /\ fbHeight \in DeskHeights
    /\ pixelFormat \in {"PixelFormat32bit", "PixelFormat8bit"}
    /\ colorMap = "none" /\ encodings = << "Raw" >>
    /\ desktopName \in DeskNames
    /\ dRect = [w |-> 0, h |-> 0] /\ dReads = 0 /\ dResult = "none"
NextDesktop ==
    \/ \E w \in DeskWidths, h \in DeskHeights : DesktopSizeRead(w, h)
    \/ \E name \in DeskNames : SetDesktopName(name)
    \/ \E width \in DeskWidths : SetFramebufferWidth(width)
    \/ \E height \in DeskHeights : SetFramebufferHeight(height)
SpecDesktop == InitDesktop /\ [][NextDesktop]_vars

\* Connect, the reader task and its consumer, and the caller cancelling the
\* context. The steps of the loop that need no byte from the server are
\* taken when they can be, and a read on a closed transport fails; when the
\* server sends its next byte is up to the server.
FairReader ==
    /\ WF_vars(LoopCheck)
    /\ WF_vars(ParseOk \/ ParseFail)
    /\ WF_vars(SendMsg \/ SendHandOff)
    /\ WF_vars(ConsumerReceive)
    /\ WF_vars(ReceiveFail /\ closeCount > 0)
NextCancel == ConnectNext \/ ReaderNext \/ CancelContext
SpecCancel == Init /\ [][NextCancel]_vars /\ FairReader

\* Reads through bufr and direct reads of Conn, in any sequence.
InitBufr == InitDefaultConn /\ InitDecoders
NextBufr == BServerSend \/ BReceive \/ BConnRead
SpecBufr == InitBufr /\ [][NextBufr]_vars

\* The three Tight filters over each rectangle, pixel size and stream length.
InitTightSize ==
    /\ InitDefaultConn /\ IdleButTightSize
    /\ sW \in 0..MaxSizeW /\ sH \in 0..MaxSizeH /\ sBPP \in BitsPerPixel
    /\ sFilter \in {0, 1, 2} /\ sP \in PaletteSizes
    /\ sLen \in 0..(RasterSize(sW, sH, 4) + 1)
    /\ sBad \in BOOLEAN
    /\ (sBad => sFilter = 1 /\ sLen > 0 /\ sP # 2)
    /\ (sFilter # 1 => sP = 1)
    /\ sOut = 0 - 1 /\ sRes = "none"
NextTightSize ==
    TightCopySize \/ TightPaletteSize \/ TightGradientSize
        \/ TightSizeReadFail
SpecTightSize == InitTightSize /\ [][NextTightSize]_vars

\* readTightGradient over each rectangle, pixel size and correction stream.
InitGradient ==
    /\ InitDefaultConn /\ IdleButGradient
    /\ \E r \in GradInputs : gW = r[1] /\ gH = r[2] /\ gB = r[3]
    /\ \E cs \in CorrSeqs(GradVaried(gW, gH)) : gCorr = CorrStream(cs, gB)
    /\ gCorrLen \in {gW * gH * gB, gW * gH * gB - 1} \cap Nat
    /\ gY = 0 /\ gData = NoBytes /\ gPc = "start"
NextGradient == GradientBegin \/ GradientReadFail \/ GradientRow
SpecGradient == InitGradient /\ [][NextGradient]_vars

\* The tile loops of HextileEncoding.Read over each rectangle.
InitLoop ==
    /\ InitDefaultConn /\ IdleButLoop
    /\ lRect \in [X : LoopOrigins, Y : LoopOrigins,
                  Width : LoopExtents, Height : LoopExtents]
    /\ lx = 0 /\ ly = lRect.Y /\ lTiles = << >> /\ lPc = "outer"
NextLoop ==
    HextileRowCheck \/ HextileTileMask \/ HextileRowEnd \/ HextileTileFail
SpecLoop == InitLoop /\ [][NextLoop]_vars

\* The reader task, its consumer and the closer tasks, each of them running
\* on: a task inside Close goes on to its next statement, and the reader
\* and the consumer as in FairReader.
FairCloser ==
    \A t \in CloserTasks : WF_vars(CloseSetFlag(t) \/ CloseTransport(t))
NextClose == ConnectNext \/ ReaderNext \/ CloserNext \/ LoopCheckStale
SpecClose == Init /\ [][NextClose]_vars /\ FairReader /\ FairCloser

\* ------------------------------------------------------------------ claims
\* What has been sent on the channel, oldest first.
Sent == consumed \o chanBuf
SentSet == { Sent[i] : i \in DOMAIN Sent }
ErrorStops == {"read_fail", "unknown_type", "decode_err"}

\* C1: with a channel configured, the messages are sent in the order their
\* type bytes were read: the wire indices of the sent messages are strictly
\* increasing (no reordering, no message sent twice) and each is a message
\* that was read and parsed.
C1_SentInWireOrder ==
    /\ \A i, j \in DOMAIN Sent : i < j => Sent[i] < Sent[j]
    /\ \A i \in DOMAIN Sent :
          /\ Sent[i] \in 1..Len(wireLog)
          /\ \E k \in DOMAIN parsedLog : parsedLog[k] = Sent[i]

\* C1 witness: two messages have been read, parsed and sent.
C1_Witness == Len(Sent) >= 2 /\ ~cfgCh.nil

\* C2: when the loop stops on a failed read, an unknown type or a decoder
\* error, the connection is terminated with the transport closed, and the
\* failing message was not sent.
C2_ErrorTerminatesConnection ==
    lahStop \in ErrorStops =>
        /\ connTerminated
        /\ closeCount >= 1
        /\ cur \notin SentSet

\* C3: ListenAndHandle returns nil only after a clean shutdown; a failed read
\* without shutdown, an unknown type and a decoder error make it return an
\* error.
C3_ErrorReturned ==
    /\ lahStop \in ErrorStops => lahResult \notin {"none", "nil"}
    /\ lahResult = "nil" => lahStop \in {"read_fail_terminated", "terminated"}

\* C4: with a channel configured every parsed message is sent exactly once
\* and none is dropped (the parsed messages are exactly the sent ones followed
\* by the one the reader is blocked on), and while the reader is blocked on
\* the send it reads nothing from the transport.
C4_NoDropBackpressure ==
    /\ [](~cfgCh.nil =>
            parsedLog = Sent \o (IF lpc = "send" THEN << cur >> ELSE << >>))
    /\ [][lpc = "send" => (nRead' = nRead /\ wireLog' = wireLog)]_vars

\* C4 witness: the consumer stalls (the buffer is full, a message received
\* earlier) while the reader holds a parsed message it cannot send yet.
C4_Witness ==
    /\ ~cfgCh.nil /\ lpc = "send"
    /\ Len(chanBuf) = cfgCh.cap
    /\ Len(parsedLog) >= 2

\* C5: at most one caller of send is writing to the transport at a time, and
\* no byte lands inside another caller's message.
C5_WritesSerialized ==
    /\ Cardinality({ s \in SenderTasks : spc[s] = "write" }) <= 1
    /\ ~interleaved

\* C6: over a sequential series of Close calls the flag is set and the
\* transport closed exactly once, by the first call; every later call
\* returns nil and changes neither the flag nor the transport.
C6_CloseIdempotent ==
    /\ [](/\ closeCount <= 1
          /\ closeReturns # << >> =>
                /\ connTerminated /\ closeCount = 1
                /\ closeReturns[1] = "transport"
                /\ \A i \in 2..Len(closeReturns) : closeReturns[i] = "nil")
    /\ [][closeReturns # << >> =>
            (connTerminated' = connTerminated /\ closeCount' = closeCount)]_vars

\* C6 witness: three Close calls in a row have returned.
C6_Witness == Len(closeReturns) >= 3 /\ closeCount = 1

\* C7: under concurrent Close calls the transport is closed at most once and
\* no second caller gets past the guard.
C7_CloseRaceSafe ==
    /\ closeCount <= 1
    /\ Cardinality({ t \in CloserTasks : cl[t] # "idle" }) <= 1

\* C8: Connect runs its steps in the fixed order; a failing step is the last
\* one run, the connection is then closed and Connect returns the error;
\* a connection is returned only after all seven steps succeeded, and it is
\* not closed when returned.
C8_ConnectOrder ==
    /\ Len(stepsRun) <= NumSteps
    /\ stepsRun = SubSeq(StepOrder, 1, Len(stepsRun))
    /\ failedStep # 0 =>
          /\ connResult = "err"
          /\ Len(stepsRun) = failedStep
          /\ connTerminated /\ closeCount = 1
    /\ connResult = "err" => failedStep # 0
    /\ connResult = "conn" =>
          /\ stepsRun = StepOrder /\ failedStep = 0
          /\ closeCalls = 0 => (~connTerminated /\ closeCount = 0)

\* C8 witness: the fifth step failed after four steps had succeeded.
C8_Witness == connResult = "err" /\ failedStep = 5

\* C9: an invalid max_proto_version makes Connect return an error; the
\* process is never terminated and no handshake step runs.
C9_InvalidVersionReturned ==
    /\ connResult # "fatal"
    /\ ProcessContextErr(mpv) =>
          /\ connResult \in {"none", "err"}
          /\ cstep = 0 /\ stepsRun = << >>

\* C10: when a configuration error is detected, no byte has been read from
\* or written to the transport.
C10_ConfigErrorsBeforeBytes ==
    (connResult = "fatal" \/ lahResult = "cfgerr") =>
        (nRead = 0 /\ nWritten = 0)

\* C11: the dispatch map of a running ListenAndHandle holds the four RFC
\* message types whatever non-nil list is configured, and no message of such
\* a type stops the loop as unknown.
C11_RfcTypesDispatched ==
    /\ (lpc \notin {"idle"} /\ ~cfgMsgs.nil) =>
          NewClientConfigMessages \subseteq DispatchMap(cfgMsgs)
    /\ lahStop = "unknown_type" =>
          wireLog[cur] \notin NewClientConfigMessages

\* C12: no step lowers the bytes-received or the bytes-sent counter.
C12_CountersMonotonic ==
    [][bytesReceived' >= bytesReceived /\ bytesSent' >= bytesSent]_vars

\* C13: bytes-received equals the bytes consumed from the transport and
\* bytes-sent the bytes written to it.
C13_CountersExact == bytesReceived = nRead /\ bytesSent = nWritten

\* C14: a Tight stream is continuous across rectangles: the reader of stream
\* i has decompressed every chunk the server put on that stream since the
\* stream's last reset, in order.
C14_StreamContinuous ==
    \A i \in Streams : zlibs[i].present => zlibs[i].hist = srvHist[i]

\* C15: once the control byte is read, and before anything is decompressed
\* for the rectangle, stream i is absent if bit i is set and is what the
\* previous rectangle left if bit i is clear.
C15_ResetBits ==
    (tRects > 0 /\ (tpc = "filter" \/ ~FilterOk(FilterID(tctl)))) =>
        \A i \in Streams :
            IF Bit(tctl, i) # 0 THEN ~zlibs[i].present
            ELSE zlibs[i] = zPrev[i]

\* C15 witness: a control byte resets a stream an earlier rectangle created
\* and keeps another one.
C15_Witness ==
    /\ tpc = "filter"
    /\ \E i, j \in Streams :
          /\ Bit(tctl, i) # 0 /\ zPrev[i].present
          /\ Bit(tctl, j) = 0 /\ zPrev[j].present /\ zlibs[j].present

\* The wire starts with the compact encoding of v.
StartsWithEncoding(v) ==
    /\ Len(CompactEncode(v)) <= Len(kWire)
    /\ SubSeq(kWire, 1, Len(CompactEncode(v))) = CompactEncode(v)

\* C16: when the wire starts with the compact encoding of a value v below
\* 2^21, the length loop ends with length v, having read exactly the bytes
\* of that encoding; whatever the bytes are, at most three are read.
C16_CompactLength ==
    /\ kPos <= 3
    /\ kPc = "done" =>
          \A v \in CompactSamples :
              StartsWithEncoding(v) =>
                  kLen = v /\ kPos = Len(CompactEncode(v))

\* C16 witness: a three-byte encoding has been decoded.
C16_Witness ==
    /\ kPc = "done" /\ kPos = 3 /\ kLen = 2 ^ 21 - 129
    /\ StartsWithEncoding(kLen)

\* C17: a rectangle decoded with a two-colour palette from its padded index
\* stream has at (x, y) the palette index given by bit 7 - x mod 8 of byte
\* y * ceil(width / 8) + floor(x / 8): every row starts on a byte boundary.
C17_MonochromeRows ==
    (pPc = "done" /\ pP = 2 /\ Len(pData) = pH * RowBytes(pW)) =>
        \A x \in 0..(pW - 1), y \in 0..(pH - 1) :
            pOut[y * pW + x + 1] =
                Bit(pData[y * RowBytes(pW) + (x \div 8) + 1], 7 - (x % 8))

\* Pixel idx lies in the tile at (x, y).
InTile(idx, x, y) ==
    /\ idx % hW >= x /\ idx % hW < x + TileExtent(hW, x)
    /\ idx \div hW >= y /\ idx \div hW < y + TileExtent(hH, y)

\* C18: a tile step without the raw bit and without the background bit fills
\* the tile with the background last specified in the rectangle (the zero
\* colour if none); a sub-rectangle of a tile without the foreground bit and
\* without coloured sub-rectangles is painted in the foreground last
\* specified; a raw tile changes neither colour.
C18_ColoursInherited ==
    [][ /\ (hPc = "tile" /\ hPc' # "err" /\ Bit(hMask', 0) = 0
              /\ Bit(hMask', 1) = 0) =>
            \A idx \in DOMAIN hColors :
                InTile(idx, hX, hY) => hColors'[idx] = hSentBg
        /\ (hPc = "sub" /\ hPc' # "err" /\ Bit(hMask, 2) = 0
              /\ Bit(hMask, 4) = 0) =>
            \A idx \in DOMAIN hColors :
                idx = (hY + SubY(hXY')) * hW + hX + SubX(hXY') =>
                    hColors'[idx] = hSentFg
        /\ (hPc = "tile" /\ hPc' # "err" /\ Bit(hMask', 0) # 0) =>
            hBg' = hBg /\ hFg' = hFg
      ]_vars

\* C18 witness: the third tile of a row, with neither colour bit, is filled
\* with the background the first tile specified, a raw tile lying between.
C18_Witness ==
    /\ hPc = "sub" /\ hX = 32 /\ hY = 0 /\ hMask = 8
    /\ hSentBg = 2 /\ hSentFg = 1
    /\ hColors[15] = 2 /\ hColors[16] \in HexRawColours /\ hColors[32] = 2

\* C19: painting a sub-rectangle changes only pixels of its own tile.
C19_SubRectClipped ==
    [][ (hPc = "sub" /\ hPc' # "err") =>
            \A idx \in DOMAIN hColors :
                hColors'[idx] # hColors[idx] => InTile(idx, hX, hY)
      ]_vars

\* The k-th group (k from 0) of b bytes the server sent.
WireGroup(k, b) == [j \in 1..b |-> WireByte(k * b + j)]

\* C20: a successful Read has consumed exactly w * h * b bytes and returns
\* w * h colours, the one at index y * w + x decoded from group y * w + x of
\* b bytes; a Read never consumes more; when fewer bytes are available Read
\* fails, and a failed Read returns no colours.
C20_RawRowMajor ==
    /\ nRead <= rW * rH * rB
    /\ rPc = "done" =>
          /\ nRead = rW * rH * rB
          /\ Len(rColors) = rW * rH
          /\ \A x \in 0..(rW - 1), y \in 0..(rH - 1) :
                rColors[y * rW + x + 1] =
                    ColorUnmarshal(WireGroup(y * rW + x, rB))
    /\ rAvail < rW * rH * rB => rPc # "done"
    /\ rPc = "err" => rColors = << >>

\* C20 witness: a 2 x 2 rectangle of 2-byte pixels has been decoded.
C20_Witness ==
    /\ rPc = "done" /\ rW = 2 /\ rH = 2 /\ rB = 2
    /\ rColors[4] = ColorUnmarshal(<< WireByte(7), WireByte(8) >>)

\* C21: decoding a DesktopSize rectangle sets (fbWidth, fbHeight) to the
\* rectangle's (Width, Height), returns without error, reads nothing from
\* the transport and changes no other field of the connection.
C21_DesktopSizeFrame ==
    [][ dReads' = dReads + 1 =>
            /\ fbWidth' = dRect'.w /\ fbHeight' = dRect'.h
            /\ dResult' = "ok"
            /\ nRead' = nRead
            /\ UNCHANGED << pixelFormat, colorMap, zlibs, encodings,
                            desktopName, connTerminated, bytesReceived,
                            bytesSent >>
      ]_vars

\* C21 witness: an 800 x 600 rectangle has been decoded.
C21_Witness ==
    /\ dReads > 0 /\ dResult = "ok" /\ dRect = [w |-> 800, h |-> 600]
    /\ fbWidth = 800 /\ fbHeight = 600

\* C22: once the context is cancelled, a reader task waiting for the next
\* message type eventually leaves ListenAndHandle.
C22_CancelStopsReader == (ctxDone /\ lpc = "recv") ~> (lpc = "done")

\* C23: the reader gets the bytes of the stream in order, each one once and
\* none skipped, whether a byte is read through bufr or from Conn directly.
C23_StreamInOrder == \A i \in DOMAIN bLog : bLog[i] = i

\* C24: with no channel configured, a message that parses has its bytes
\* consumed and is recorded as parsed, nothing is sent or handed to a
\* consumer, and the loop goes back to its top without returning; the
\* reader is never at the channel send.
C24_NilChannelDiscards ==
    [][ cfgCh.nil =>
            /\ lpc' # "send" /\ chanBuf' = << >> /\ consumed' = << >>
            /\ (lpc = "parse" /\ lpc' # "parse" /\ lahStop' # "decode_err") =>
                  /\ parsedLog' = Append(parsedLog, cur)
                  /\ nRead' = nRead + BodyLen(wireLog[cur])
                  /\ lpc' = "check" /\ lahResult' = "none"
      ]_vars

\* C24 witness: with no channel, two messages have been parsed and the
\* reader waits for a third.
C24_Witness ==
    /\ cfgCh.nil /\ Len(parsedLog) >= 2 /\ lpc = "recv"
    /\ lahResult = "none" /\ consumed = << >>

\* C25: stream 3 is never created, and the decoding of a rectangle's data
\* with filter f leaves every stream other than f as it was.
C25_FilterSelectsStream ==
    [][ /\ ~zlibs'[3].present
        /\ (tpc = "filter" /\ tpc' = "idle") =>
              \A i \in Streams :
                  i # FilterID(tctl) => zlibs'[i] = zlibs[i]
      ]_vars

\* C25 witness: a Gradient rectangle has been decompressed through stream 2
\* after a Palette rectangle through stream 1, stream 0 never created.
C25_Witness ==
    /\ tpc = "idle" /\ tResult = "ok" /\ FilterID(tctl) = 2
    /\ zlibs[2].present /\ zlibs[2].hist = << tRects >>
    /\ zlibs[1].present /\ ~zlibs[0].present

\* C26: a control byte whose filter id is 8 or any other value above 2 makes
\* Read return an error after the control byte alone was read; a filter is
\* decoded exactly for the ids 0, 1 and 2.
C26_UnsupportedFilter ==
    [][ tRects' = tRects + 1 =>
            /\ nRead' = nRead + 1
            /\ IF FilterID(tctl') \in {0, 1, 2}
               THEN tpc' = "filter" /\ tResult' = "none"
               ELSE tpc' = "idle" /\ tResult' = "err"
      ]_vars

\* C26 witness: a JPEG control byte has been refused.
C26_Witness ==
    /\ tRects > 0 /\ FilterID(tctl) = 8 /\ tpc = "idle" /\ tResult = "err"

\* C27: a successful Tight decode returns width * height * bytesPerPixel
\* bytes; a Copy stream of another size, an indexed Palette stream of
\* another number of indexes and a monochrome stream with too few bits give
\* no payload.
C27_TightSizeChecked ==
    /\ sRes = "ok" => sOut = sW * sH * (sBPP \div 8)
    /\ (sFilter = 0 /\ sLen # sW * sH * (sBPP \div 8)) => sRes # "ok"
    /\ (sFilter = 1 /\ sP > 2 /\ sLen # sW * sH) => sRes # "ok"
    /\ (sFilter = 1 /\ sP <= 2 /\ 8 * sLen < sW * sH) => sRes # "ok"
    /\ sRes # "ok" => sOut = 0 - 1

\* C27 witness: a 2 x 2 Copy rectangle of 4-byte pixels has been decoded.
C27_Witness ==
    /\ sRes = "ok" /\ sFilter = 0 /\ sW = 2 /\ sH = 2 /\ sBPP = 32
    /\ sOut = 16

\* C28: palette decoding never reads the palette out of range: an index
\* that is not below the palette size gives an error.
C28_PaletteIndexChecked == pPc # "panic"

\* The byte the gradient formula gives at position b of pixel (x, y): the
\* clamped left + above - above-left, missing neighbours being zero, plus
\* the correction, modulo 256.
RECURSIVE GradRef(_, _, _)
GradRef(x, y, b) ==
    IF x < 0 \/ y < 0 THEN 0
    ELSE (Clamp255(GradRef(x - 1, y, b) + GradRef(x, y - 1, b)
                      - GradRef(x - 1, y - 1, b))
             + ByteAt(gCorr, (y * gW + x) * gB + b)) % 256

\* C29: the gradient decoder never fails on its own offsets, and the raster
\* it returns has the formula's byte at offset (y * width + x) *
\* bytesPerPixel + b for every pixel and byte position.
C29_GradientFormula ==
    /\ gPc # "panic"
    /\ gPc = "done" =>
          \A x \in 0..(gW - 1), y \in 0..(gH - 1), b \in 0..(gB - 1) :
              ByteAt(gData, (y * gW + x) * gB + b) = GradRef(x, y, b)

\* The number of 16-pixel tiles that cover n pixels.
TilesOver(n) == (n + 15) \div 16

\* Tile i of the rectangle's row-major tiling: its place in the rectangle and
\* its extent, an edge tile having what remains.
TilingTile(i) ==
    LET col == (i - 1) % TilesOver(lRect.Width)
        row == (i - 1) \div TilesOver(lRect.Width)
        rest(total, at) == IF total - at < 16 THEN total - at ELSE 16
    IN [px |-> 16 * col, py |-> 16 * row,
        tileW |-> rest(lRect.Width, 16 * col),
        tileH |-> rest(lRect.Height, 16 * row)]

\* C30: the tile loops read the masks of the rectangle's row-major tiling
\* and no other: never more than ceil(w/16) * ceil(h/16) of them, each tile
\* read being the tiling's tile at that place, and all of them by the time
\* the loops end.
C30_TilingExact ==
    /\ Len(lTiles) <= TilesOver(lRect.Width) * TilesOver(lRect.Height)
    /\ \A i \in DOMAIN lTiles :
          i <= TilesOver(lRect.Width) * TilesOver(lRect.Height)
              => lTiles[i] = TilingTile(i)
    /\ lPc = "done" =>
          Len(lTiles) = TilesOver(lRect.Width) * TilesOver(lRect.Height)

\* C31: once a Close call has returned, a running ListenAndHandle eventually
\* returns, the consumer receiving from the channel; and once the loop has
\* seen the terminated flag no further message type is read.
C31_CloseStopsReader ==
    /\ (closeReturns # << >> /\ lpc # "idle") ~> (lpc = "done")
    /\ [][lahStop = "terminated" => wireLog' = wireLog]_vars

\* Close has returned after closing the transport under a reader that had
\* read a message type, and the reader's next read failed and ended the loop.
C31_Witness ==
    /\ closeCount > 0 /\ closeReturns # << >>
    /\ wireLog # << >>
    /\ lpc = "done" /\ lahStop = "read_fail_terminated"

====
